---------------------------- MODULE Spec2Model ----------------------------
(***************************************************************************)
(* PodletJS: docker-run / Compose input -> Container model -> Quadlet unit *)
(* text.  The model follows src/js/container.js (Container),               *)
(* src/index.html (ComposeParser, PodletJS) and src/unnamed/part_001       *)
(* (types, QuadletGenerator).                                              *)
(*                                                                         *)
(* Text.  A JavaScript string is a sequence of atoms.  Data that the code  *)
(* inspects character by character (ports, names, values) is written one   *)
(* character per atom, and so is a literal the code splices into a value   *)
(* (".service"); a key, a section header, a flag or an error message of    *)
(* the source ("Image=", "[Unit]", "--tty") is one atom.  A unit           *)
(* file is the sequence of its lines, each line being the text before its  *)
(* "\n"; the empty line is <<>>.  No modelled value contains a line break. *)
(***************************************************************************)
EXTENDS Integers, Sequences, FiniteSets, TLC

VARIABLES
    containers,   \* Container objects of the model machine, in creation order
    arrays,       \* heap of array objects reachable through a non-list field
    lastCall,     \* the last Container operation: its name, argument and outcome
    snapshot,     \* unit text of the original container, taken when it is cloned
    ops,          \* number of Container operations performed
    input,        \* the arguments of the conversion under way
    output        \* what each conversion entry point returned

vars == <<containers, arrays, lastCall, snapshot, ops, input, output>>

(***************************************************************************)
(* Strings                                                                 *)
(***************************************************************************)
Digits == {"0", "1", "2", "3", "4", "5", "6", "7", "8", "9"}

Letters ==
    {"a", "b", "c", "d", "e", "f", "g", "h", "i", "j", "k", "l", "m",
     "n", "o", "p", "q", "r", "s", "t", "u", "v", "w", "x", "y", "z",
     "A", "B", "C", "D", "E", "F", "G", "H", "I", "J", "K", "L", "M",
     "N", "O", "P", "Q", "R", "S", "T", "U", "V", "W", "X", "Y", "Z"}

Whitespace == {" ", "\t"}

DigitVal(ch) ==
    CASE ch = "0" -> 0 [] ch = "1" -> 1 [] ch = "2" -> 2 [] ch = "3" -> 3
      [] ch = "4" -> 4 [] ch = "5" -> 5 [] ch = "6" -> 6 [] ch = "7" -> 7
      [] ch = "8" -> 8 [] ch = "9" -> 9

DigitChar(d) ==
    CASE d = 0 -> "0" [] d = 1 -> "1" [] d = 2 -> "2" [] d = 3 -> "3"
      [] d = 4 -> "4" [] d = 5 -> "5" [] d = 6 -> "6" [] d = 7 -> "7"
      [] d = 8 -> "8" [] d = 9 -> "9"

\* String.prototype.includes(ch)
Includes(s, ch) == \E i \in 1..Len(s) : s[i] = ch

\* String.prototype.indexOf(ch), 1-based; 0 when ch does not occur
IndexOf(s, ch) ==
    IF Includes(s, ch)
    THEN CHOOSE i \in 1..Len(s) : s[i] = ch /\ \A j \in 1..(i - 1) : s[j] # ch
    ELSE 0

\* String.prototype.startsWith(prefix)
StartsWith(s, prefix) ==
    Len(s) >= Len(prefix) /\ SubSeq(s, 1, Len(prefix)) = prefix

RECURSIVE TrimStart(_)
TrimStart(s) ==
    IF s # <<>> /\ Head(s) \in Whitespace THEN TrimStart(Tail(s)) ELSE s

RECURSIVE TrimEnd(_)
TrimEnd(s) ==
    IF s # <<>> /\ s[Len(s)] \in Whitespace
    THEN TrimEnd(SubSeq(s, 1, Len(s) - 1))
    ELSE s

\* String.prototype.trim()
Trim(s) == TrimEnd(TrimStart(s))

\* String.prototype.split(sep) for a one-character separator
RECURSIVE Split(_, _)
Split(s, sep) ==
    LET i == IndexOf(s, sep)
    IN  IF i = 0
        THEN <<s>>
        ELSE <<SubSeq(s, 1, i - 1)>> \o Split(SubSeq(s, i + 1, Len(s)), sep)

\* Array.prototype.join(sep) on an array of strings
RECURSIVE Join(_, _)
Join(list, sep) ==
    IF list = <<>> THEN <<>>
    ELSE IF Len(list) = 1 THEN list[1]
    ELSE list[1] \o sep \o Join(Tail(list), sep)

\* Concatenation of an array of arrays (the lines of several fragments)
RECURSIVE Flatten(_)
Flatten(lists) ==
    IF lists = <<>> THEN <<>> ELSE Head(lists) \o Flatten(Tail(lists))

\* The longest prefix of s made of decimal digits
RECURSIVE DigitPrefix(_)
DigitPrefix(s) ==
    IF s # <<>> /\ Head(s) \in Digits
    THEN <<Head(s)>> \o DigitPrefix(Tail(s))
    ELSE <<>>

RECURSIVE DigitsValue(_, _)
DigitsValue(s, acc) ==
    IF s = <<>> THEN acc ELSE DigitsValue(Tail(s), 10 * acc + DigitVal(Head(s)))

\* parseInt(s, 10): leading white space is skipped, then an optional sign and
\* the longest run of digits are read; NaN when there is no digit.
parseInt(s) ==
    LET t    == TrimStart(s)
        neg  == t # <<>> /\ Head(t) = "-"
        body == IF t # <<>> /\ Head(t) \in {"-", "+"} THEN Tail(t) ELSE t
        ds   == DigitPrefix(body)
    IN  IF ds = <<>>
        THEN [nan |-> TRUE, val |-> 0]
        ELSE [nan |-> FALSE,
              val |-> IF neg THEN 0 - DigitsValue(ds, 0) ELSE DigitsValue(ds, 0)]

\* Number.prototype.toString() of an integer
RECURSIVE NatToStr(_)
NatToStr(n) ==
    IF n < 10 THEN <<DigitChar(n)>>
    ELSE NatToStr(n \div 10) \o <<DigitChar(n % 10)>>

IntToStr(n) == IF n < 0 THEN <<"-">> \o NatToStr(0 - n) ELSE NatToStr(n)

(***************************************************************************)
(* JavaScript values that reach the code as loosely typed input: a decoded *)
(* YAML scalar, an argument of a Container mutator, a nullable field.      *)
(***************************************************************************)
Undef  == [t |-> "undef", s |-> <<>>, n |-> 0]
Null   == [t |-> "null", s |-> <<>>, n |-> 0]
S(str) == [t |-> "str", s |-> str, n |-> 0]
N(k)   == [t |-> "num", s |-> <<>>, n |-> k]
B(b)   == [t |-> "bool", s |-> <<>>, n |-> IF b THEN 1 ELSE 0]
\* a reference to the array object arrays[ref]
Arr(ref) == [t |-> "arr", s |-> <<>>, n |-> ref]
\* a built-in function object; s is the text String(f) gives
Fn(name) ==
    [t |-> "fn", s |-> <<"function ">> \o name \o <<"() { [native code] }">>,
     n |-> 0]

\* ToBoolean: what `if (v)` and `!v` test
Truthy(v) ==
    CASE v.t = "str"  -> v.s # <<>>
      [] v.t = "num"  -> v.n # 0
      [] v.t = "bool" -> v.n = 1
      [] v.t = "arr"  -> TRUE
      [] v.t = "fn"   -> TRUE
      [] OTHER        -> FALSE

\* String(v), `${v}` and string concatenation with v
ToStr(v) ==
    CASE v.t = "str"   -> v.s
      [] v.t = "num"   -> IntToStr(v.n)
      [] v.t = "bool"  -> IF v.n = 1 THEN <<"true">> ELSE <<"false">>
      [] v.t = "null"  -> <<"null">>
      [] v.t = "undef" -> <<"undefined">>
      [] v.t = "fn"    -> v.s

IsString(v) == v.t = "str"

(***************************************************************************)
(* Container (src/js/container.js)                                         *)
(***************************************************************************)
\* new Container().  List fields hold arrays of strings; each Container owns
\* its list arrays, so they are held by value.  _restart and _dependsOn are
\* the two properties ComposeParser._parseService adds to the object; an
\* undefined _dependsOn and an empty one are told apart nowhere in the code.
NewContainer ==
    [image |-> S(<<>>), containerName |-> Null, exec |-> Null,
     addCapability |-> <<>>, dropCapability |-> <<>>,
     addDevice |-> <<>>, mount |-> <<>>, volume |-> <<>>,
     network |-> <<>>, networkAlias |-> <<>>, publishPort |-> <<>>,
     exposeHostPort |-> <<>>, ip |-> Null, ip6 |-> Null,
     dns |-> <<>>, dnsOption |-> <<>>, dnsSearch |-> <<>>,
     environment |-> <<>>, environmentFile |-> <<>>, environmentHost |-> FALSE,
     noNewPrivileges |-> FALSE, securityLabelDisable |-> FALSE,
     securityLabelFileType |-> Null, securityLabelLevel |-> Null,
     securityLabelNested |-> FALSE, securityLabelType |-> Null,
     seccompProfile |-> Null, mask |-> <<>>, unmask |-> Null,
     user |-> Null, group |-> Null, groupAdd |-> <<>>, userNS |-> Null,
     uidMap |-> <<>>, gidMap |-> <<>>, subUidMap |-> Null, subGidMap |-> Null,
     readOnly |-> FALSE, readOnlyTmpfs |-> TRUE, runInit |-> FALSE,
     workingDir |-> Null, hostName |-> Null, timezone |-> Null,
     shmSize |-> Null, tmpfs |-> <<>>,
     healthCmd |-> Null, healthInterval |-> Null, healthOnFailure |-> Null,
     healthRetries |-> Null, healthStartPeriod |-> Null,
     healthStartupCmd |-> Null, healthStartupInterval |-> Null,
     healthStartupRetries |-> Null, healthStartupSuccess |-> Null,
     healthStartupTimeout |-> Null, healthTimeout |-> Null,
     notify |-> S(<<"conmon">>), stopSignal |-> Null, stopTimeout |-> Null,
     pod |-> Null, logDriver |-> Null, logOpt |-> <<>>,
     label |-> <<>>, annotation |-> <<>>,
     pidsLimit |-> Null, ulimit |-> <<>>, sysctl |-> <<>>,
     autoUpdate |-> Null, pull |-> Null, secret |-> <<>>, rootfs |-> Null,
     entrypoint |-> Null, podmanArgs |-> Null,
     _restart |-> Undef, _dependsOn |-> <<>>]

\* The outcome of a call that may throw: the Container after the call and the
\* message of the Error thrown (NoError when the call returned).
NoError == <<>>
Returned(c) == [c |-> c, err |-> NoError]
Threw(c, message) == [c |-> c, err |-> message]

\* run the next step unless an earlier one threw
Bind(r, Step(_)) == IF r.err = NoError THEN Step(r.c) ELSE r

\* if (b) { ...Op changes c... }
When(b, c, Op(_)) == IF b THEN Op(c) ELSE c

\* the guard every validating mutator starts with:
\* !v || typeof v !== 'string' || v.trim() === ''
NotNonEmptyString(v) == ~Truthy(v) \/ ~IsString(v) \/ Trim(v.s) = <<>>

setImage(c, image) ==
    IF NotNonEmptyString(image)
    THEN Threw(c, <<"Image must be a non-empty string">>)
    ELSE Returned([c EXCEPT !.image = S(Trim(image.s))])

\* /^[a-zA-Z0-9_.-]+$/: the pattern without the rule for the first character
namePatternAnyFirst(s) ==
    /\ s # <<>>
    /\ \A i \in 1..Len(s) : s[i] \in Letters \cup Digits \cup {"_", ".", "-"}

\* /^[a-zA-Z0-9][a-zA-Z0-9_.-]*$/
namePattern(s) ==
    /\ s # <<>>
    /\ s[1] \in Letters \cup Digits
    /\ \A i \in 2..Len(s) : s[i] \in Letters \cup Digits \cup {"_", ".", "-"}

setContainerName(c, name) ==
    IF NotNonEmptyString(name)
    THEN Threw(c, <<"Container name must be a non-empty string">>)
    ELSE IF ~namePattern(Trim(name.s))
    THEN Threw(c, <<"Container name must start with alphanumeric character and contain only alphanumeric characters, underscores, periods, and hyphens">>)
    ELSE Returned([c EXCEPT !.containerName = S(Trim(name.s))])

setExec(c, command) ==
    IF Truthy(command) /\ ~IsString(command)
    THEN Threw(c, <<"Exec command must be a string">>)
    ELSE Returned([c EXCEPT !.exec = command])

ProtocolSuffixes ==
    {<<"/", "t", "c", "p">>, <<"/", "u", "d", "p">>, <<"/", "s", "c", "t", "p">>}

\* /^(\d+:)?\d+(\/(?:tcp|udp|sctp))?$/
portPattern(s) ==
    LET d1    == DigitPrefix(s)
        rest1 == SubSeq(s, Len(d1) + 1, Len(s))
        d2    == DigitPrefix(Tail(rest1))
        rest2 == SubSeq(rest1, Len(d2) + 2, Len(rest1))
    IN  /\ d1 # <<>>
        /\ \/ rest1 \in ProtocolSuffixes \cup {<<>>}
           \/ /\ rest1 # <<>>
              /\ Head(rest1) = ":"
              /\ d2 # <<>>
              /\ rest2 \in ProtocolSuffixes \cup {<<>>}

\* s.replace(/\/(?:tcp|udp|sctp)$/, '')
StripProtocol(s) ==
    IF \E suf \in ProtocolSuffixes :
           Len(s) >= Len(suf) /\ SubSeq(s, Len(s) - Len(suf) + 1, Len(s)) = suf
    THEN LET suf == CHOOSE suf \in ProtocolSuffixes :
                        /\ Len(s) >= Len(suf)
                        /\ SubSeq(s, Len(s) - Len(suf) + 1, Len(s)) = suf
         IN  SubSeq(s, 1, Len(s) - Len(suf))
    ELSE s

MinPort == 1
MaxPort == 65535

\* the range check with the lower limit at 0 instead of 1
PortOutOfRangeFromZero(num) == ~num.nan /\ (num.val < 0 \/ num.val > MaxPort)

\* portNum < 1 || portNum > 65535; both comparisons are false for NaN
PortOutOfRange(num) == ~num.nan /\ (num.val < MinPort \/ num.val > MaxPort)

\* the components of ports the loop of addPublishPort throws on, in order
OutOfRange(ports) == SelectSeq(ports, LAMBDA p : PortOutOfRange(parseInt(p)))

\* addPublishPort once the port is trimmed and matches portPattern
CheckedPort(c, trimmedPort, bad) ==
    IF bad # <<>>
    THEN Threw(c, <<"Port ">> \o IntToStr(parseInt(bad[1]).val)
                    \o <<" is out of valid range (1-65535)">>)
    ELSE Returned([c EXCEPT !.publishPort = Append(@, trimmedPort)])

TrimmedPort(c, trimmedPort) ==
    IF ~portPattern(trimmedPort)
    THEN Threw(c, <<"Port must be in format \"host:container\" or \"container\", optionally with protocol \"/tcp\", \"/udp\", or \"/sctp\"">>)
    ELSE CheckedPort(c, trimmedPort,
                     OutOfRange(Split(StripProtocol(trimmedPort), ":")))

addPublishPort(c, port) ==
    IF NotNonEmptyString(port)
    THEN Threw(c, <<"Port must be a non-empty string">>)
    ELSE TrimmedPort(c, Trim(port.s))

\* addEnvironment with the push before the test of the format
addEnvironmentPushingFirst(c, env) ==
    IF NotNonEmptyString(env)
    THEN Threw(c, <<"Environment variable must be a non-empty string">>)
    ELSE IF ~Includes(Trim(env.s), "=")
    THEN Threw([c EXCEPT !.environment = Append(@, Trim(env.s))],
               <<"Environment variable must be in format \"KEY=value\"">>)
    ELSE Returned([c EXCEPT !.environment = Append(@, Trim(env.s))])

addEnvironment(c, env) ==
    IF NotNonEmptyString(env)
    THEN Threw(c, <<"Environment variable must be a non-empty string">>)
    ELSE IF ~Includes(Trim(env.s), "=")
    THEN Threw(c, <<"Environment variable must be in format \"KEY=value\"">>)
    ELSE Returned([c EXCEPT !.environment = Append(@, Trim(env.s))])

addVolume(c, volume) ==
    IF NotNonEmptyString(volume)
    THEN Threw(c, <<"Volume must be a non-empty string">>)
    ELSE IF ~Includes(Trim(volume.s), ":") /\ ~StartsWith(Trim(volume.s), <<"/">>)
    THEN Threw(c, <<"Volume must be in format \"source:destination\" or an absolute path">>)
    ELSE Returned([c EXCEPT !.volume = Append(@, Trim(volume.s))])

addLabel(c, label) ==
    IF NotNonEmptyString(label)
    THEN Threw(c, <<"Label must be a non-empty string">>)
    ELSE IF ~Includes(Trim(label.s), "=")
    THEN Threw(c, <<"Label must be in format \"key=value\"">>)
    ELSE Returned([c EXCEPT !.label = Append(@, Trim(label.s))])

setPod(c, pod) == Returned([c EXCEPT !.pod = pod])

\* getDefaultName(): the explicit name, else the last path segment of the
\* image without its tag
getDefaultName(c) ==
    IF Truthy(c.containerName)
    THEN ToStr(c.containerName)
    ELSE LET imageParts == Split(ToStr(c.image), "/")
         IN  Split(imageParts[Len(imageParts)], ":")[1]

\* validate(): the Error it throws, NoError when it returns
InvalidPortNumber(portNum) ==
    portNum.nan \/ portNum.val < MinPort \/ portNum.val > MaxPort

\* the test on the whole component, Number(p) in the place of parseInt(p, 10):
\* a component with a protocol suffix is not a number
InvalidPortComponentWhole(p) ==
    DigitPrefix(p) # p \/ InvalidPortNumber(parseInt(p))

InvalidPortComponent(p) == InvalidPortNumber(parseInt(p))

\* the ports of publishPort the loop of validate throws on, in order
InvalidPorts(publishPort) ==
    SelectSeq(publishPort,
              LAMBDA port : \E k \in 1..Len(Split(port, ":")) :
                               InvalidPortComponent(Split(port, ":")[k]))

InvalidPortError(bad) ==
    IF bad # <<>> THEN <<"Invalid port: ">> \o bad[1] ELSE NoError

validate(c) ==
    IF ~Truthy(c.image)
    THEN <<"Image is required">>
    ELSE InvalidPortError(InvalidPorts(c.publishPort))

\* a copy that leaves out the last element
SpreadButLast(array) == [i \in 1..(Len(array) - 1) |-> array[i]]

\* [...array]: a new array with the same elements
Spread(array) == [i \in 1..Len(array) |-> array[i]]

\* clone(): a new Container; every scalar property is assigned from this (so
\* an array held in unmask is shared by reference), every list property is
\* spread into a new array.  The two properties the Compose mapper adds are
\* not copied.
clone(c) ==
    [NewContainer EXCEPT
        !.image = c.image,
        !.containerName = c.containerName,
        !.exec = c.exec,
        !.ip = c.ip,
        !.ip6 = c.ip6,
        !.environmentHost = c.environmentHost,
        !.noNewPrivileges = c.noNewPrivileges,
        !.securityLabelDisable = c.securityLabelDisable,
        !.securityLabelFileType = c.securityLabelFileType,
        !.securityLabelLevel = c.securityLabelLevel,
        !.securityLabelNested = c.securityLabelNested,
        !.securityLabelType = c.securityLabelType,
        !.seccompProfile = c.seccompProfile,
        !.unmask = c.unmask,
        !.user = c.user,
        !.group = c.group,
        !.userNS = c.userNS,
        !.subUidMap = c.subUidMap,
        !.subGidMap = c.subGidMap,
        !.readOnly = c.readOnly,
        !.readOnlyTmpfs = c.readOnlyTmpfs,
        !.runInit = c.runInit,
        !.workingDir = c.workingDir,
        !.hostName = c.hostName,
        !.timezone = c.timezone,
        !.shmSize = c.shmSize,
        !.healthCmd = c.healthCmd,
        !.healthInterval = c.healthInterval,
        !.healthOnFailure = c.healthOnFailure,
        !.healthRetries = c.healthRetries,
        !.healthStartPeriod = c.healthStartPeriod,
        !.healthTimeout = c.healthTimeout,
        !.healthStartupCmd = c.healthStartupCmd,
        !.healthStartupInterval = c.healthStartupInterval,
        !.healthStartupRetries = c.healthStartupRetries,
        !.healthStartupSuccess = c.healthStartupSuccess,
        !.healthStartupTimeout = c.healthStartupTimeout,
        !.notify = c.notify,
        !.stopSignal = c.stopSignal,
        !.stopTimeout = c.stopTimeout,
        !.pod = c.pod,
        !.logDriver = c.logDriver,
        !.pidsLimit = c.pidsLimit,
        !.autoUpdate = c.autoUpdate,
        !.pull = c.pull,
        !.rootfs = c.rootfs,
        !.entrypoint = c.entrypoint,
        !.podmanArgs = c.podmanArgs,
        !.addCapability = Spread(c.addCapability),
        !.dropCapability = Spread(c.dropCapability),
        !.addDevice = Spread(c.addDevice),
        !.mount = Spread(c.mount),
        !.volume = Spread(c.volume),
        !.network = Spread(c.network),
        !.networkAlias = Spread(c.networkAlias),
        !.publishPort = Spread(c.publishPort),
        !.exposeHostPort = Spread(c.exposeHostPort),
        !.dns = Spread(c.dns),
        !.dnsOption = Spread(c.dnsOption),
        !.dnsSearch = Spread(c.dnsSearch),
        !.environment = Spread(c.environment),
        !.environmentFile = Spread(c.environmentFile),
        !.mask = Spread(c.mask),
        !.groupAdd = Spread(c.groupAdd),
        !.uidMap = Spread(c.uidMap),
        !.gidMap = Spread(c.gidMap),
        !.tmpfs = Spread(c.tmpfs),
        !.label = Spread(c.label),
        !.logOpt = Spread(c.logOpt),
        !.annotation = Spread(c.annotation),
        !.ulimit = Spread(c.ulimit),
        !.sysctl = Spread(c.sysctl),
        !.secret = Spread(c.secret)]

(***************************************************************************)
(* QuadletGenerator (src/unnamed/part_001)                                 *)
(***************************************************************************)
\* String.prototype.replace(/ch/g, by): every occurrence of the character ch
\* is replaced by the text by
RECURSIVE ReplaceAll(_, _, _)
ReplaceAll(s, ch, by) ==
    IF s = <<>> THEN <<>>
    ELSE (IF Head(s) = ch THEN by ELSE <<Head(s)>>) \o ReplaceAll(Tail(s), ch, by)

\* value.replace(/"/g, '\\"').replace(/\\/g, '\\\\'): the two passes in the
\* other order
EscapeCharsQuotesFirst(s) ==
    ReplaceAll(ReplaceAll(s, "\"", <<"\\", "\"">>), "\\", <<"\\", "\\">>)

\* value.replace(/\\/g, '\\\\').replace(/"/g, '\\"')
EscapeChars(s) ==
    ReplaceAll(ReplaceAll(s, "\\", <<"\\", "\\">>), "\"", <<"\\", "\"">>)

escapeValue(value) ==
    IF Includes(value, " ")
    THEN <<"\"">> \o EscapeChars(value) \o <<"\"">>
    ELSE value

\* output += `Key=${value}\n`
KeyLine(key, value) == <<<<key>> \o value>>

\* if (field) output += `Key=${field}\n`
IfSet(key, field) ==
    IF Truthy(field) THEN KeyLine(key, ToStr(field)) ELSE <<>>

\* list.forEach(v => output += `Key=${v}\n`)
ForEachLine(key, list) == [i \in 1..Len(list) |-> <<key>> \o list[i]]

\* list.forEach(v => output += `Key=${this.escapeValue(v)}\n`)
ForEachEscaped(key, list) ==
    [i \in 1..Len(list) |-> <<key>> \o escapeValue(list[i])]

\* if (list.length > 0) output += `Key=${list.join(sep)}\n`
JoinedLine(key, list, sep) ==
    IF Len(list) > 0 THEN KeyLine(key, Join(list, sep)) ELSE <<>>

\* if (flag) output += 'Line\n'
FlagLine(flag, line) == IF flag THEN <<<<line>>>> ELSE <<>>

none == <<"n", "o", "n", "e">>

DnsLines(c) ==
    IF Len(c.dns) > 0
    THEN IF \E i \in 1..Len(c.dns) : c.dns[i] = none
         THEN <<<<"DNS=">> \o none>>
         ELSE ForEachLine("DNS=", c.dns)
    ELSE <<>>

UnmaskLines(c, heap) ==
    IF Truthy(c.unmask)
    THEN IF c.unmask.t = "arr"
         THEN KeyLine("Unmask=", Join(heap[c.unmask.n], <<":">>))
         ELSE KeyLine("Unmask=", ToStr(c.unmask))
    ELSE <<>>

NotifyLines(c) ==
    IF Truthy(c.notify) /\ c.notify # S(<<"conmon">>)
    THEN IF c.notify = S(<<"container">>) THEN <<<<"Notify=true">>>>
         ELSE IF c.notify = S(<<"healthy">>) THEN <<<<"Notify=healthy">>>>
         ELSE <<>>
    ELSE <<>>

\* generateContainerSection(container): the lines of the [Container] block.
\* heap resolves an array held in container.unmask.
generateContainerSection(c, heap) ==
    Flatten(<<
        <<<<"[Container]">>>>,
        KeyLine("Image=", ToStr(c.image)),
        IfSet("ContainerName=", c.containerName),
        IfSet("Exec=", c.exec),
        ForEachLine("PublishPort=", c.publishPort),
        ForEachLine("Volume=", c.volume),
        ForEachEscaped("Environment=", c.environment),
        ForEachLine("EnvironmentFile=", c.environmentFile),
        FlagLine(c.environmentHost, "EnvironmentHost=true"),
        ForEachEscaped("Label=", c.label),
        ForEachLine("Network=", c.network),
        ForEachLine("NetworkAlias=", c.networkAlias),
        JoinedLine("AddCapability=", c.addCapability, <<" ">>),
        JoinedLine("DropCapability=", c.dropCapability, <<" ">>),
        DnsLines(c),
        ForEachLine("DNSOption=", c.dnsOption),
        ForEachLine("DNSSearch=", c.dnsSearch),
        FlagLine(c.noNewPrivileges, "NoNewPrivileges=true"),
        FlagLine(c.securityLabelDisable, "SecurityLabelDisable=true"),
        IfSet("SecurityLabelFileType=", c.securityLabelFileType),
        IfSet("SecurityLabelLevel=", c.securityLabelLevel),
        FlagLine(c.securityLabelNested, "SecurityLabelNested=true"),
        IfSet("SecurityLabelType=", c.securityLabelType),
        IfSet("SeccompProfile=", c.seccompProfile),
        JoinedLine("Mask=", c.mask, <<":">>),
        UnmaskLines(c, heap),
        IfSet("User=", c.user),
        IfSet("Group=", c.group),
        ForEachLine("GroupAdd=", c.groupAdd),
        IfSet("UserNS=", c.userNS),
        ForEachLine("UIDMap=", c.uidMap),
        ForEachLine("GIDMap=", c.gidMap),
        IfSet("SubUIDMap=", c.subUidMap),
        IfSet("SubGIDMap=", c.subGidMap),
        FlagLine(c.readOnly, "ReadOnly=true"),
        FlagLine(~c.readOnlyTmpfs, "ReadOnlyTmpfs=false"),
        FlagLine(c.runInit, "RunInit=true"),
        IfSet("WorkingDir=", c.workingDir),
        IfSet("HostName=", c.hostName),
        IfSet("Timezone=", c.timezone),
        IfSet("ShmSize=", c.shmSize),
        ForEachLine("Tmpfs=", c.tmpfs),
        IfSet("HealthCmd=", c.healthCmd),
        IfSet("HealthInterval=", c.healthInterval),
        IfSet("HealthOnFailure=", c.healthOnFailure),
        IfSet("HealthRetries=", c.healthRetries),
        IfSet("HealthStartPeriod=", c.healthStartPeriod),
        IfSet("HealthTimeout=", c.healthTimeout),
        IfSet("HealthStartupCmd=", c.healthStartupCmd),
        IfSet("HealthStartupInterval=", c.healthStartupInterval),
        IfSet("HealthStartupRetries=", c.healthStartupRetries),
        IfSet("HealthStartupSuccess=", c.healthStartupSuccess),
        IfSet("HealthStartupTimeout=", c.healthStartupTimeout),
        NotifyLines(c),
        IfSet("StopSignal=", c.stopSignal),
        IfSet("StopTimeout=", c.stopTimeout),
        IfSet("Pod=", c.pod),
        IfSet("LogDriver=", c.logDriver),
        ForEachLine("LogOpt=", c.logOpt),
        ForEachEscaped("Annotation=", c.annotation),
        IfSet("PidsLimit=", c.pidsLimit),
        ForEachLine("Ulimit=", c.ulimit),
        ForEachLine("Sysctl=", c.sysctl),
        IfSet("AutoUpdate=", c.autoUpdate),
        IfSet("Pull=", c.pull),
        ForEachLine("Secret=", c.secret),
        IfSet("Rootfs=", c.rootfs),
        IfSet("Entrypoint=", c.entrypoint),
        IfSet("IP=", c.ip),
        IfSet("IP6=", c.ip6),
        IfSet("PodmanArgs=", c.podmanArgs)
    >>)

(***************************************************************************)
(* Generation options.  An overlay (unit, service, install, globals) is a  *)
(* plain object or absent: defined tells the two apart, keys is the set of *)
(* its own property names, and a property that is not in keys holds        *)
(* undefined (Undef, or <<>> for a list, which the code never tells from   *)
(* an absent one: every list is read as `x && x.length > 0`).              *)
(***************************************************************************)
NoUnit ==
    [defined |-> FALSE, keys |-> {}, description |-> Undef,
     Description |-> Undef, wants |-> <<>>, requires |-> <<>>,
     after |-> <<>>, before |-> <<>>]

EmptyUnit == [NoUnit EXCEPT !.defined = TRUE]

NoService ==
    [defined |-> FALSE, keys |-> {}, restart |-> Undef, Restart |-> Undef,
     restartSec |-> Undef, RestartSec |-> Undef,
     timeoutStartSec |-> Undef, TimeoutStartSec |-> Undef]

EmptyService == [NoService EXCEPT !.defined = TRUE]

NoInstall ==
    [defined |-> FALSE, keys |-> {}, wantedBy |-> <<>>, requiredBy |-> <<>>]

EmptyInstall == [NoInstall EXCEPT !.defined = TRUE]

NoGlobals == [defined |-> FALSE, keys |-> {}, podmanArgs |-> Undef]

EmptyGlobals == [NoGlobals EXCEPT !.defined = TRUE]

\* options = {}
NoOptions ==
    [name |-> Undef, unit |-> NoUnit, service |-> NoService,
     install |-> NoInstall, globals |-> NoGlobals]

\* a || b
Or(a, b) == IF Truthy(a) THEN a ELSE b

generateUnitSection(unit) ==
    Flatten(<<
        <<<<"[Unit]">>>>,
        IfSet("Description=", Or(unit.description, unit.Description)),
        JoinedLine("Wants=", unit.wants, <<" ">>),
        JoinedLine("Requires=", unit.requires, <<" ">>),
        JoinedLine("After=", unit.after, <<" ">>),
        JoinedLine("Before=", unit.before, <<" ">>)
    >>)

generateServiceSection(service) ==
    Flatten(<<
        <<<<"[Service]">>>>,
        IfSet("Restart=", Or(service.restart, service.Restart)),
        IfSet("RestartSec=", Or(service.restartSec, service.RestartSec)),
        IfSet("TimeoutStartSec=",
              Or(service.timeoutStartSec, service.TimeoutStartSec))
    >>)

generateInstallSection(install) ==
    Flatten(<<
        <<<<"[Install]">>>>,
        JoinedLine("WantedBy=", install.wantedBy, <<" ">>),
        JoinedLine("RequiredBy=", install.requiredBy, <<" ">>)
    >>)

\* '\n' appended to, or put before, a fragment that ends a line
BlankLine == <<<<>>>>

\* generateFile with the [Service] block written before the [GlobalArgs] block
generateFileServiceFirst(c, heap, options) ==
    Flatten(<<
        IF options.unit.defined
            THEN generateUnitSection(options.unit) \o BlankLine ELSE <<>>,
        generateContainerSection(c, heap),
        IF options.service.defined
            THEN BlankLine \o generateServiceSection(options.service) ELSE <<>>,
        IF options.globals.defined /\ Truthy(options.globals.podmanArgs)
            THEN BlankLine \o <<<<"[GlobalArgs]">>>>
                     \o KeyLine("PodmanArgs=", ToStr(options.globals.podmanArgs))
            ELSE <<>>,
        IF options.install.defined
            THEN BlankLine \o generateInstallSection(options.install) ELSE <<>>
    >>)

\* generateFile(container, options): the lines of the unit file
generateFile(c, heap, options) ==
    Flatten(<<
        IF options.unit.defined
            THEN generateUnitSection(options.unit) \o BlankLine ELSE <<>>,
        generateContainerSection(c, heap),
        IF options.globals.defined /\ Truthy(options.globals.podmanArgs)
            THEN BlankLine \o <<<<"[GlobalArgs]">>>>
                     \o KeyLine("PodmanArgs=", ToStr(options.globals.podmanArgs))
            ELSE <<>>,
        IF options.service.defined
            THEN BlankLine \o generateServiceSection(options.service) ELSE <<>>,
        IF options.install.defined
            THEN BlankLine \o generateInstallSection(options.install) ELSE <<>>
    >>)

(***************************************************************************)
(* The decoded Compose document (the output of the YAML library).          *)
(*                                                                         *)
(* A mapping is held as the sequence of its entries in document order;     *)
(* the code reads it through Object.keys / Object.entries, modelled below. *)
(* A scalar-or-sequence field is [kind, items]: "absent", "scalar" (one    *)
(* item) or "seq".                                                         *)
(***************************************************************************)
Absent == [kind |-> "absent", items |-> <<>>]
Scalar(s) == [kind |-> "scalar", items |-> <<s>>]
List(l) == [kind |-> "seq", items |-> l]

\* if (field): an array is truthy even when empty, a string when non-empty
FieldSet(f) == f.kind = "seq" \/ (f.kind = "scalar" /\ f.items[1] # <<>>)

\* Array.isArray(f) ? f.join(' ') : f
JoinedOrScalar(f) ==
    IF f.kind = "seq" THEN Join(f.items, <<" ">>) ELSE f.items[1]

\* a short port entry (a string or a number) ...
ShortPort(v) ==
    [long |-> FALSE, v |-> v, target |-> Undef, published |-> Undef,
     protocol |-> Undef]

\* ... and a long one, {target, published, protocol}
LongPort(target, published, protocol) ==
    [long |-> TRUE, v |-> Undef, target |-> target, published |-> published,
     protocol |-> protocol]

ShortVolume(v) ==
    [long |-> FALSE, v |-> v, type |-> Undef, source |-> Undef,
     target |-> Undef, read_only |-> FALSE, tmpfsSize |-> Undef]

\* {type, source, target, read_only, tmpfs: {size}}; tmpfsSize is
\* volume.tmpfs.size, undefined also when volume.tmpfs is
LongVolume(type, source, target, read_only, tmpfsSize) ==
    [long |-> TRUE, v |-> Undef, type |-> type, source |-> source,
     target |-> target, read_only |-> read_only, tmpfsSize |-> tmpfsSize]

\* environment / labels: absent, an array of strings, or a mapping
NoPairs == [kind |-> "absent", items |-> <<>>, entries |-> <<>>]
PairArray(items) == [kind |-> "array", items |-> items, entries |-> <<>>]
PairMap(entries) == [kind |-> "map", items |-> <<>>, entries |-> entries]

\* networks: absent, an array of names, or a mapping name -> config
NoNetworks == [kind |-> "absent", names |-> <<>>, entries |-> <<>>]
NetworkArray(names) == [kind |-> "array", names |-> names, entries |-> <<>>]
NetworkMap(entries) == [kind |-> "map", names |-> <<>>, entries |-> entries]
NetworkConfig(name, ipv4_address, aliases) ==
    [name |-> name, hasConfig |-> TRUE, ipv4_address |-> ipv4_address,
     aliases |-> aliases]
NetworkNoConfig(name) ==
    [name |-> name, hasConfig |-> FALSE, ipv4_address |-> Undef,
     aliases |-> <<>>]

NoHealthcheck ==
    [present |-> FALSE, disable |-> FALSE, test |-> Absent,
     interval |-> Undef, timeout |-> Undef, retries |-> Undef,
     start_period |-> Undef]

\* depends_on: absent, a sequence of names, or a mapping keyed by name
NoDependsOn == [kind |-> "absent", names |-> <<>>]
DependsOnSeq(names) == [kind |-> "seq", names |-> names]
DependsOnMap(names) == [kind |-> "map", names |-> names]

\* a service definition with no key set: `name: {}`.  isMapping is FALSE
\* for `name:` (a null service).  unsupported is the set of tolerated keys
\* present (external_links, links, network_mode, secrets, configs, deploy).
EmptyServiceDef ==
    [isMapping |-> TRUE,
     image |-> Undef, build |-> Undef, container_name |-> Undef,
     command |-> Absent, entrypoint |-> Absent,
     ports |-> <<>>, volumes |-> <<>>,
     environment |-> NoPairs, env_file |-> Absent, labels |-> NoPairs,
     networks |-> NoNetworks, hostname |-> Undef, user |-> Undef,
     working_dir |-> Undef, restart |-> Undef, security_opt |-> Absent,
     cap_add |-> Absent, cap_drop |-> Absent, devices |-> Absent,
     dns |-> Absent, read_only |-> FALSE, init |-> FALSE, tmpfs |-> Absent,
     privileged |-> FALSE, tty |-> FALSE, stdin_open |-> FALSE,
     mem_limit |-> Undef, cpus |-> Undef, healthcheck |-> NoHealthcheck,
     depends_on |-> NoDependsOn, unsupported |-> {}]

\* An integer-like property name ("0", "9", "10"; not "09"): a canonical
\* array index.  Names of 10 digits and more are not modelled.
IsArrayIndex(k) ==
    /\ k # <<>>
    /\ \A i \in 1..Len(k) : k[i] \in Digits
    /\ Len(k) = 1 \/ k[1] # "0"

RECURSIVE SortIndexKeys(_)
SortIndexKeys(keys) ==
    IF keys = <<>> THEN <<>>
    ELSE LET i == CHOOSE i \in 1..Len(keys) :
                      \A j \in 1..Len(keys) :
                          DigitsValue(keys[i], 0) <= DigitsValue(keys[j], 0)
         IN  <<keys[i]>> \o SortIndexKeys(
                 SubSeq(keys, 1, i - 1) \o SubSeq(keys, i + 1, Len(keys)))

NotArrayIndex(k) == ~IsArrayIndex(k)

\* Object.keys(o) of an object whose properties were created in the order
\* keys: integer-like names first, in ascending numeric order, then the
\* other names in creation order (OrdinaryOwnPropertyKeys).
ObjectKeys(keys) ==
    SortIndexKeys(SelectSeq(keys, IsArrayIndex)) \o SelectSeq(keys, NotArrayIndex)

\* Object.entries(o) of a mapping held as entries [name, ...] in creation order
EntryNames(entries) == [i \in 1..Len(entries) |-> entries[i].name]

ObjectEntries(entries) ==
    [i \in 1..Len(entries) |->
        LET k == ObjectKeys(EntryNames(entries))[i]
        IN  entries[CHOOSE j \in 1..Len(entries) : entries[j].name = k]]

(***************************************************************************)
(* ComposeParser (src/index.html)                                          *)
(***************************************************************************)
\* the characters of /[\s"'$\\|&;()<>]/ and the backquote, which no TLA+
\* string can hold and no modelled value contains
ShellSpecial ==
    Whitespace \cup {"\"", "'", "$", "\\", "|", "&", ";", "(", ")", "<", ">"}

\* arg.replace(/["\\]/g, '\\$&')
RECURSIVE EscapeArgChars(_)
EscapeArgChars(s) ==
    IF s = <<>> THEN <<>>
    ELSE (IF Head(s) \in {"\"", "\\"} THEN <<"\\", Head(s)>> ELSE <<Head(s)>>)
             \o EscapeArgChars(Tail(s))

_escapeArg(arg) ==
    LET str == ToStr(arg)
    IN  IF \E i \in 1..Len(str) : str[i] \in ShellSpecial
        THEN <<"\"">> \o EscapeArgChars(str) \o <<"\"">>
        ELSE str

\* _addToPodmanArgs(container, flag, value = null)
_addToPodmanArgs(c, flag, value) ==
    LET args0 == IF Truthy(c.podmanArgs) THEN ToStr(c.podmanArgs) ELSE <<>>
        args1 == IF args0 # <<>> THEN args0 \o <<" ">> ELSE args0
        args2 == args1 \o flag
        args3 == IF value # Null THEN args2 \o <<" ">> \o _escapeArg(value)
                 ELSE args2
    IN  [c EXCEPT !.podmanArgs = S(args3)]

\* one entry of _parsePorts with the suffix written for tcp as well
ParsePortKeepingTcp(c, port) ==
    IF ~port.long
    THEN IF port.v.t \in {"str", "num"}
         THEN addPublishPort(c, S(ToStr(port.v)))
         ELSE Returned(c)
    ELSE addPublishPort(c,
             S((IF Truthy(port.published)
                THEN ToStr(port.published) \o <<":">> ELSE <<>>)
               \o ToStr(port.target)
               \o (IF Truthy(port.protocol)
                   THEN <<"/">> \o ToStr(port.protocol) ELSE <<>>)))

\* one entry of _parsePorts
ParsePort(c, port) ==
    IF ~port.long
    THEN IF port.v.t \in {"str", "num"}
         THEN addPublishPort(c, S(ToStr(port.v)))
         ELSE Returned(c)
    ELSE LET spec0 == IF Truthy(port.published)
                      THEN ToStr(port.published) \o <<":">> ELSE <<>>
             spec1 == spec0 \o ToStr(port.target)
             spec2 == IF Truthy(port.protocol)
                         /\ port.protocol # S(<<"t", "c", "p">>)
                      THEN spec1 \o <<"/">> \o ToStr(port.protocol)
                      ELSE spec1
         IN  addPublishPort(c, S(spec2))

RECURSIVE _parsePorts(_, _)
_parsePorts(c, ports) ==
    IF ports = <<>> THEN Returned(c)
    ELSE Bind(ParsePort(c, Head(ports)), LAMBDA x : _parsePorts(x, Tail(ports)))

\* one entry of _parseVolumes without the `continue` of the tmpfs branch: a
\* tmpfs entry goes on to the volume list as well
ParseVolumeFallingThrough(c, volume) ==
    IF ~volume.long
    THEN IF IsString(volume.v) THEN addVolume(c, volume.v) ELSE Returned(c)
    ELSE addVolume(
             IF volume.type = S(<<"t", "m", "p", "f", "s">>)
             THEN [c EXCEPT !.tmpfs = Append(@, ToStr(volume.target))]
             ELSE c,
             S((IF Truthy(volume.source)
                THEN ToStr(volume.source) \o <<":">> ELSE <<>>)
               \o ToStr(volume.target)
               \o (IF volume.read_only THEN <<":", "r", "o">> ELSE <<>>)))

\* one entry of _parseVolumes
ParseVolume(c, volume) ==
    IF ~volume.long
    THEN IF IsString(volume.v) THEN addVolume(c, volume.v) ELSE Returned(c)
    ELSE IF volume.type = S(<<"t", "m", "p", "f", "s">>)
    THEN Returned([c EXCEPT !.tmpfs = Append(@,
             ToStr(volume.target) \o
                 (IF Truthy(volume.tmpfsSize)
                  THEN <<":", "s", "i", "z", "e", "=">> \o ToStr(volume.tmpfsSize)
                  ELSE <<>>))])
    ELSE LET spec0 == IF Truthy(volume.source)
                      THEN ToStr(volume.source) \o <<":">> ELSE <<>>
             spec1 == spec0 \o ToStr(volume.target)
             spec2 == IF volume.read_only THEN spec1 \o <<":", "r", "o">>
                      ELSE spec1
         IN  addVolume(c, S(spec2))

RECURSIVE _parseVolumes(_, _)
_parseVolumes(c, volumes) ==
    IF volumes = <<>> THEN Returned(c)
    ELSE Bind(ParseVolume(c, Head(volumes)), LAMBDA x : _parseVolumes(x, Tail(volumes)))

\* `${key}=${value}` for each entry of a mapping, in Object.entries order
PairStrings(entries) ==
    [i \in 1..Len(entries) |->
        S(ObjectEntries(entries)[i].name \o <<"=">>
              \o ToStr(ObjectEntries(entries)[i].value))]

RECURSIVE AddEnvironments(_, _)
AddEnvironments(c, envs) ==
    IF envs = <<>> THEN Returned(c)
    ELSE Bind(addEnvironment(c, Head(envs)), LAMBDA x : AddEnvironments(x, Tail(envs)))

_parseEnvironment(c, environment) ==
    IF environment.kind = "array" THEN AddEnvironments(c, environment.items)
    ELSE IF environment.kind = "map"
    THEN AddEnvironments(c, PairStrings(environment.entries))
    ELSE Returned(c)

RECURSIVE AddLabels(_, _)
AddLabels(c, labels) ==
    IF labels = <<>> THEN Returned(c)
    ELSE Bind(addLabel(c, Head(labels)), LAMBDA x : AddLabels(x, Tail(labels)))

_parseLabels(c, labels) ==
    IF labels.kind = "array" THEN AddLabels(c, labels.items)
    ELSE IF labels.kind = "map" THEN AddLabels(c, PairStrings(labels.entries))
    ELSE Returned(c)

\* the network spec with the aliases among its options
NetworkSpecWithAliases(entry) ==
    IF entry.hasConfig /\ (Truthy(entry.ipv4_address) \/ entry.aliases # <<>>)
    THEN entry.name \o <<":">>
             \o Join((IF Truthy(entry.ipv4_address)
                      THEN <<<<"i", "p", "=">> \o ToStr(entry.ipv4_address)>>
                      ELSE <<>>)
                     \o [i \in 1..Len(entry.aliases) |->
                            <<"a", "l", "i", "a", "s", "=">> \o entry.aliases[i]],
                     <<",">>)
    ELSE entry.name

\* the network spec of one entry of a networks mapping
NetworkSpec(entry) ==
    IF entry.hasConfig /\ Truthy(entry.ipv4_address)
    THEN entry.name \o <<":", "i", "p", "=">> \o ToStr(entry.ipv4_address)
    ELSE entry.name

_parseNetworks(c, networks) ==
    IF networks.kind = "array"
    THEN [c EXCEPT !.network = @ \o networks.names]
    ELSE IF networks.kind = "map"
    THEN LET es == ObjectEntries(networks.entries)
         IN  [c EXCEPT
                 !.network = @ \o [i \in 1..Len(es) |-> NetworkSpec(es[i])],
                 !.networkAlias = @ \o Flatten([i \in 1..Len(es) |->
                     IF es[i].hasConfig THEN es[i].aliases ELSE <<>>])]
    ELSE c

RECURSIVE _parseSecurityOptions(_, _)
_parseSecurityOptions(c, opts) ==
    IF opts = <<>> THEN c
    ELSE LET opt == Head(opts)
             c1  == IF opt = <<"n", "o", "-", "n", "e", "w", "-", "p", "r", "i",
                               "v", "i", "l", "e", "g", "e", "s", ":", "t", "r",
                               "u", "e">>
                    THEN [c EXCEPT !.noNewPrivileges = TRUE]
                    ELSE IF StartsWith(opt, <<"l", "a", "b", "e", "l", "=", "d",
                                              "i", "s", "a", "b", "l", "e">>)
                    THEN [c EXCEPT !.securityLabelDisable = TRUE]
                    ELSE _addToPodmanArgs(c, <<"--security-opt">>, S(opt))
         IN  _parseSecurityOptions(c1, Tail(opts))

_parseHealthcheck(c, healthcheck) ==
    IF healthcheck.disable
    THEN [c EXCEPT !.healthCmd = S(none)]
    ELSE [c EXCEPT
             !.healthCmd = IF FieldSet(healthcheck.test)
                           THEN S(JoinedOrScalar(healthcheck.test)) ELSE @,
             !.healthInterval = IF Truthy(healthcheck.interval)
                                THEN healthcheck.interval ELSE @,
             !.healthTimeout = IF Truthy(healthcheck.timeout)
                               THEN healthcheck.timeout ELSE @,
             !.healthRetries = IF Truthy(healthcheck.retries)
                               THEN healthcheck.retries ELSE @,
             !.healthStartPeriod = IF Truthy(healthcheck.start_period)
                                   THEN healthcheck.start_period ELSE @]

\* `Service '${serviceName}' must have either 'image' or 'build'`
MissingImageError(serviceName) ==
    <<"Service '">> \o serviceName \o <<"' must have either 'image' or 'build'">>

\* reading a property of a null service definition
NullServiceError == <<"TypeError: Cannot read properties of null (reading 'image')">>

ParseImage(c, serviceName, service) ==
    IF Truthy(service.image) THEN setImage(c, service.image)
    ELSE IF Truthy(service.build)
    THEN setImage(c, S(serviceName \o <<".", "b", "u", "i", "l", "d">>))
    ELSE Threw(c, MissingImageError(serviceName))

\* the name set from container_name only, not from the service key
ParseNameExplicitOnly(c, serviceName, service) ==
    IF Truthy(service.container_name)
    THEN setContainerName(c, service.container_name)
    ELSE Returned(c)

ParseName(c, serviceName, service) ==
    IF Truthy(service.container_name)
    THEN setContainerName(c, service.container_name)
    ELSE setContainerName(c, S(serviceName))

ParseCommand(c, service) ==
    IF FieldSet(service.command)
    THEN setExec(c, S(JoinedOrScalar(service.command)))
    ELSE Returned(c)

\* the assignments of _parseService that cannot throw, entrypoint first
ParseEntrypoint(c, service) ==
    IF FieldSet(service.entrypoint)
    THEN [c EXCEPT !.entrypoint = S(JoinedOrScalar(service.entrypoint))]
    ELSE c

\* const [user, group] = String(service.user).split(':')
ParseUser(c, service) ==
    IF Truthy(service.user)
    THEN LET userSpec == ToStr(service.user)
         IN  IF Includes(userSpec, ":")
             THEN [c EXCEPT !.user = S(Split(userSpec, ":")[1]),
                            !.group = S(Split(userSpec, ":")[2])]
             ELSE [c EXCEPT !.user = S(userSpec)]
    ELSE c

\* lines 235-266: env_file, labels, networks, hostname, user
ParseEnvFile(c, service) ==
    IF FieldSet(service.env_file)
    THEN [c EXCEPT !.environmentFile = @ \o service.env_file.items]
    ELSE c

\* lines 268-321: working_dir .. tmpfs
ParseRuntime(c, service) ==
    LET c1 == When(Truthy(service.working_dir), c,
                   LAMBDA x : [x EXCEPT !.workingDir = service.working_dir])
        c2 == When(Truthy(service.restart), c1,
                   LAMBDA x : [x EXCEPT !._restart = service.restart])
        c3 == When(FieldSet(service.security_opt), c2,
                   LAMBDA x : _parseSecurityOptions(x, service.security_opt.items))
        c4 == When(FieldSet(service.cap_add), c3,
                   LAMBDA x : [x EXCEPT !.addCapability = @ \o service.cap_add.items])
        c5 == When(FieldSet(service.cap_drop), c4,
                   LAMBDA x : [x EXCEPT !.dropCapability = @ \o service.cap_drop.items])
        c6 == When(FieldSet(service.devices), c5,
                   LAMBDA x : [x EXCEPT !.addDevice = @ \o service.devices.items])
        c7 == When(FieldSet(service.dns), c6,
                   LAMBDA x : [x EXCEPT !.dns = @ \o service.dns.items])
        c8 == When(service.read_only, c7, LAMBDA x : [x EXCEPT !.readOnly = TRUE])
        c9 == When(service.init, c8, LAMBDA x : [x EXCEPT !.runInit = TRUE])
    IN  When(FieldSet(service.tmpfs), c9,
             LAMBDA x : [x EXCEPT !.tmpfs = @ \o service.tmpfs.items])

\* lines 323-346: the flag-style fields, appended to podmanArgs
ParseFlags(c, service) ==
    LET c1 == When(service.privileged, c,
                   LAMBDA x : _addToPodmanArgs(x, <<"--privileged">>, Null))
        c2 == When(service.tty, c1,
                   LAMBDA x : _addToPodmanArgs(x, <<"--tty">>, Null))
        c3 == When(service.stdin_open, c2,
                   LAMBDA x : _addToPodmanArgs(x, <<"--interactive">>, Null))
        c4 == When(Truthy(service.mem_limit), c3,
                   LAMBDA x : _addToPodmanArgs(x, <<"--memory">>, service.mem_limit))
    IN  When(Truthy(service.cpus), c4,
             LAMBDA x : _addToPodmanArgs(x, <<"--cpus">>, S(ToStr(service.cpus))))

\* lines 353-358: depends_on captured as a list of names
ParseDependsOn(c, service) ==
    IF service.depends_on.kind = "seq"
    THEN [c EXCEPT !._dependsOn = service.depends_on.names]
    ELSE IF service.depends_on.kind = "map"
    THEN [c EXCEPT !._dependsOn = ObjectKeys(service.depends_on.names)]
    ELSE c

\* the statements of _parseService, in the order of the source
ServiceFields ==
    <<"image", "container_name", "command", "entrypoint", "ports", "volumes",
      "environment", "env_file", "labels", "networks", "hostname", "user",
      "runtime", "flags", "healthcheck", "depends_on">>

\* one statement of _parseService on the Container c built so far
ParseField(field, c, serviceName, service) ==
    CASE field = "image" -> ParseImage(c, serviceName, service)
      [] field = "container_name" -> ParseName(c, serviceName, service)
      [] field = "command" -> ParseCommand(c, service)
      [] field = "entrypoint" -> Returned(ParseEntrypoint(c, service))
      [] field = "ports" -> _parsePorts(c, service.ports)
      [] field = "volumes" -> _parseVolumes(c, service.volumes)
      [] field = "environment" -> _parseEnvironment(c, service.environment)
      [] field = "env_file" -> Returned(ParseEnvFile(c, service))
      [] field = "labels" -> _parseLabels(c, service.labels)
      [] field = "networks" -> Returned(_parseNetworks(c, service.networks))
      [] field = "hostname" ->
             Returned(When(Truthy(service.hostname), c,
                           LAMBDA x : [x EXCEPT !.hostName = service.hostname]))
      [] field = "user" -> Returned(ParseUser(c, service))
      [] field = "runtime" -> Returned(ParseRuntime(c, service))
      [] field = "flags" -> Returned(ParseFlags(c, service))
      [] field = "healthcheck" ->
             Returned(When(service.healthcheck.present, c,
                           LAMBDA x : _parseHealthcheck(x, service.healthcheck)))
      [] field = "depends_on" -> Returned(ParseDependsOn(c, service))

\* the statements `fields` after the outcome r of the earlier ones: the first
\* Error thrown ends the function
RECURSIVE ParseFields(_, _, _, _)
ParseFields(fields, r, serviceName, service) ==
    IF fields = <<>> THEN r
    ELSE ParseFields(Tail(fields),
             Bind(r, LAMBDA x : ParseField(Head(fields), x, serviceName, service)),
             serviceName, service)

\* _parseService(serviceName, service, compose): the Container built, or the
\* Error thrown by the first statement that fails
_parseService(serviceName, service) ==
    IF ~service.isMapping THEN Threw(NewContainer, NullServiceError)
    ELSE ParseFields(ServiceFields, Returned(NewContainer), serviceName, service)

\* _validateService with an Error thrown where the warning is logged
_validateServiceStrict(serviceName, service) ==
    IF ~service.isMapping THEN NullServiceError
    ELSE IF ~Truthy(service.image) /\ ~Truthy(service.build)
    THEN MissingImageError(serviceName)
    ELSE IF service.unsupported # {}
    THEN <<"Service '">> \o serviceName \o <<"' uses an unsupported feature">>
    ELSE NoError

\* _validateService(serviceName, service): the Error thrown, NoError if none;
\* an unsupported per-service key only logs a warning
_validateService(serviceName, service) ==
    IF ~service.isMapping THEN NullServiceError
    ELSE IF ~Truthy(service.image) /\ ~Truthy(service.build)
    THEN MissingImageError(serviceName)
    ELSE NoError

\* The decoded document.  decoded is FALSE when the YAML is not a mapping;
\* configs and secrets are "absent", "empty" or "nonempty"; services holds
\* the entries [name, def] of the services mapping in document order.
EmptyDocument ==
    [decoded |-> TRUE, hasServices |-> FALSE, services |-> <<>>,
     configs |-> "absent", secrets |-> "absent"]

Document(services) ==
    [EmptyDocument EXCEPT !.hasServices = TRUE, !.services = services]

\* the services the loop of _validateCompose throws on, in order
InvalidServices(entries) ==
    SelectSeq(entries, LAMBDA e : _validateService(e.name, e.def) # NoError)

ServicesError(bad) ==
    IF bad # <<>> THEN _validateService(bad[1].name, bad[1].def) ELSE NoError

\* _validateCompose(compose): the Error thrown, NoError if none
_validateCompose(compose) ==
    IF ~compose.hasServices \/ Len(compose.services) = 0
    THEN <<"Compose file must contain at least one service">>
    ELSE IF compose.configs = "nonempty"
    THEN <<"Compose feature 'configs' is not yet supported">>
    ELSE IF compose.secrets = "nonempty"
    THEN <<"Compose feature 'secrets' is not yet supported">>
    ELSE ServicesError(InvalidServices(ObjectEntries(compose.services)))

RECURSIVE ParseServices(_, _)

\* the step of the loop with a service that fails to map left out
ParsedServiceSkipping(r, entries, parsed) ==
    IF r.err # NoError
    THEN ParseServices(Tail(entries), parsed)
    ELSE ParseServices(Tail(entries),
             Append(parsed, [name |-> Head(entries).name, container |-> r.c]))

\* containers[serviceName] = r, the outcome of _parseService; an Error
\* thrown leaves parse
ParsedService(r, entries, parsed) ==
    IF r.err # NoError
    THEN [err |-> r.err, containers |-> <<>>]
    ELSE ParseServices(Tail(entries),
             Append(parsed, [name |-> Head(entries).name, container |-> r.c]))

\* the loop of parse over Object.entries(compose.services)
ParseServices(entries, parsed) ==
    IF entries = <<>> THEN [err |-> NoError, containers |-> parsed]
    ELSE ParsedService(_parseService(Head(entries).name, Head(entries).def),
                       entries, parsed)

ValidatedCompose(compose, error) ==
    IF error # NoError
    THEN [err |-> error, containers |-> <<>>]
    ELSE ParseServices(ObjectEntries(compose.services), <<>>)

\* parse(yamlContent): the Error thrown, or the object serviceName ->
\* Container as its entries in creation order
parse(compose) ==
    IF ~compose.decoded
    THEN [err |-> <<"Invalid compose file format">>, containers |-> <<>>]
    ELSE ValidatedCompose(compose, _validateCompose(compose))

(***************************************************************************)
(* PodletJS (src/index.html)                                               *)
(***************************************************************************)
\* containers built by the parser hold no array outside their list fields
NoHeap == <<>>

Validated(c, options, error) ==
    IF error # NoError
    THEN [err |-> error, content |-> <<>>]
    ELSE [err |-> NoError, content |-> generateFile(c, NoHeap, options)]

\* containerToQuadlet(container, options): validate, then generate
containerToQuadlet(c, options) == Validated(c, options, validate(c))

\* dependsOn.map(dep => `${dep}.service`)
ServiceUnits(deps) ==
    [i \in 1..Len(deps) |-> deps[i] \o <<".", "s", "e", "r", "v", "i", "c", "e">>]

\* {...unitConfig, after: [...], wants: [...]}
WithDependencies(unitConfig, units) ==
    [unitConfig EXCEPT !.keys = @ \cup {"after", "wants"},
                       !.after = @ \o units, !.wants = @ \o units]

\* the Unit overlay composeToQuadlet builds for one container
UnitConfig(c, options) ==
    When(Len(c._dependsOn) > 0,
         IF options.unit.defined THEN options.unit ELSE EmptyUnit,
         LAMBDA unitConfig : WithDependencies(unitConfig, ServiceUnits(c._dependsOn)))

\* methods an object literal inherits from Object.prototype, and the
\* function object a property read by that name gives
ObjectPrototypeMethods ==
    {<<"c", "o", "n", "s", "t", "r", "u", "c", "t", "o", "r">>,
     <<"t", "o", "S", "t", "r", "i", "n", "g">>,
     <<"v", "a", "l", "u", "e", "O", "f">>}
InheritedMethod(name) ==
    Fn(IF name = <<"c", "o", "n", "s", "t", "r", "u", "c", "t", "o", "r">>
       THEN <<"O", "b", "j", "e", "c", "t">> ELSE name)

\* restartMap[policy]: undefined for a policy that is neither a key of the
\* map nor the name of a member the map inherits
restartMap(policy) ==
    CASE policy = S(<<"n", "o">>) -> S(<<"n", "o">>)
      [] policy = S(<<"a", "l", "w", "a", "y", "s">>) ->
             S(<<"a", "l", "w", "a", "y", "s">>)
      [] policy = S(<<"o", "n", "-", "f", "a", "i", "l", "u", "r", "e">>) ->
             S(<<"o", "n", "-", "f", "a", "i", "l", "u", "r", "e">>)
      [] policy = S(<<"u", "n", "l", "e", "s", "s", "-", "s", "t", "o", "p",
                      "p", "e", "d">>) ->
             S(<<"a", "l", "w", "a", "y", "s">>)
      [] policy.t = "str" /\ policy.s \in ObjectPrototypeMethods ->
             InheritedMethod(policy.s)
      [] OTHER -> Undef

\* {...serviceConfig, Restart: restart}, if restart !== undefined
WithRestartOf(serviceConfig, restart) ==
    IF restart # Undef
    THEN [serviceConfig EXCEPT !.keys = @ \cup {"Restart"}, !.Restart = restart]
    ELSE serviceConfig

\* the Service overlay composeToQuadlet builds for one container
ServiceConfig(c, options) ==
    When(Truthy(c._restart),
         IF options.service.defined THEN options.service ELSE EmptyService,
         LAMBDA serviceConfig : WithRestartOf(serviceConfig, restartMap(c._restart)))

\* Object.keys(config).length > 0 ? config : given
NonEmptyOr(config, given) == IF config.keys # {} THEN config ELSE given

\* the options composeToQuadlet hands to containerToQuadlet
ServiceOptions(serviceName, c, options) ==
    [options EXCEPT
        !.name = S(serviceName),
        !.unit = NonEmptyOr(UnitConfig(c, options), options.unit),
        !.service = NonEmptyOr(ServiceConfig(c, options), options.service)]

RECURSIVE ConvertServices(_, _, _)

\* the caller's options after an iteration that adds the dependencies and
\* the restart policy to the caller's own overlays
OptionsAfterMerging(serviceName, c, options) ==
    [options EXCEPT
        !.unit = NonEmptyOr(UnitConfig(c, options), options.unit),
        !.service = NonEmptyOr(ServiceConfig(c, options), options.service)]

\* The caller's options after one iteration of the loop: unitConfig and
\* serviceConfig are new objects ({...unitConfig, after: [...]}, {...serviceConfig,
\* Restart}) and the options handed on are a new object ({...options, name,
\* unit, service}); no statement assigns to options or changes its lists.
OptionsAfter(serviceName, c, options) == options

\* results.push({filename, content}) with r, the outcome of
\* containerToQuadlet; an Error thrown leaves the function, and results with it
PushResult(r, entries, options, results) ==
    IF r.err # NoError
    THEN [err |-> r.err, results |-> <<>>]
    ELSE ConvertServices(Tail(entries),
             OptionsAfter(Head(entries).name, Head(entries).container, options),
             Append(results,
                    [filename |-> Head(entries).name \o
                         <<".", "c", "o", "n", "t", "a", "i", "n", "e", "r">>,
                     content |-> r.content]))

\* the loop of composeToQuadlet over Object.entries(servicesObject)
ConvertServices(entries, options, results) ==
    IF entries = <<>> THEN [err |-> NoError, results |-> results]
    ELSE PushResult(
             containerToQuadlet(Head(entries).container,
                 ServiceOptions(Head(entries).name, Head(entries).container,
                                options)),
             entries, options, results)

Parsed(p, options) ==
    IF p.err # NoError
    THEN [err |-> p.err, results |-> <<>>]
    ELSE ConvertServices(ObjectEntries(p.containers), options, <<>>)

\* composeToQuadlet(yamlContent, options): the Error thrown, or the array of
\* {filename, content}
composeToQuadlet(compose, options) == Parsed(parse(compose), options)

ParsedRun(r, options) ==
    IF r.err # NoError
    THEN [err |-> r.err, content |-> <<>>]
    ELSE containerToQuadlet(r.c, options)

\* dockerRunToQuadlet(command, options), from the Compose object the
\* run-to-compose converter returned for command: the Error thrown, or the
\* unit text
dockerRunToQuadlet(composeObject, options) ==
    ParsedRun(_parseService(ObjectKeys(EntryNames(composeObject.services))[1],
                            ObjectEntries(composeObject.services)[1].def),
              options)

(***************************************************************************)
(* Bounds and the values the operations are tried on                       *)
(***************************************************************************)
\* Container operations in one run of the Container machine
MaxOps == 3

\* services in one Compose document
MaxServices == 2

nginx == <<"n", "g", "i", "n", "x">>
web == <<"w", "e", "b">>
db == <<"d", "b">>
cache == <<"c", "a", "c", "h", "e">>
always == <<"a", "l", "w", "a", "y", "s">>
onFailure == <<"o", "n", "-", "f", "a", "i", "l", "u", "r", "e">>
tcp == <<"/", "t", "c", "p">>
udp == <<"/", "u", "d", "p">>
sctp == <<"/", "s", "c", "t", "p">>
dbService == <<"d", "b", ".", "s", "e", "r", "v", "i", "c", "e">>
networkTarget ==
    <<"n", "e", "t", "w", "o", "r", "k", ".", "t", "a", "r", "g", "e", "t">>
defaultTarget ==
    <<"d", "e", "f", "a", "u", "l", "t", ".", "t", "a", "r", "g", "e", "t">>

ImageArgs == {S(nginx), S(<<" ">>), N(1)}
NameArgs ==
    {S(<<"m", "y", "_", "a", "p", "p", "-", "1">>), S(<<"-", "b", "a", "d">>),
     S(<<"b", "a", "d", " ", "n", "a", "m", "e">>)}
PortArgs ==
    {S(<<"8", "0", "8", "0", ":", "8", "0">>), S(<<"8", "0">> \o udp),
     S(<<"0", ":", "8", "0">>)}
EnvironmentArgs ==
    {S(<<"A", "=", "b", " ", "c">>), S(<<"A", "=", "b">>), S(<<"A">>)}
VolumeArgs ==
    {S(<<"/", "d", "a", "t", "a">>), S(<<"/", "a", ":", "/", "b", ":", "r", "o">>),
     S(<<"d", "a", "t", "a">>)}
LabelArgs == {S(<<"a", "=", "b">>), S(<<"a">>), S(<<" ", "c", "=", "d", " ">>)}
\* the values assigned to container.unmask: a string, or a new array
UnmaskStrings == {<<"A", "L", "L">>}
UnmaskArrays == {<<<<"/", "p", "r", "o", "c">>>>}
UnmaskPushed == {<<"/", "s", "y", "s">>}

(***************************************************************************)
(* The Container machine: a Container is built by its mutators, cloned     *)
(* once, and the clone is mutated further.                                 *)
(***************************************************************************)
NoCall == [op |-> "none", arg |-> Undef, err |-> NoError, target |-> 0]
NoSnapshot == [taken |-> FALSE, fields |-> NewContainer, text |-> <<>>]
Idle == [kind |-> "idle"]
NoOutput == [kind |-> "none"]

\* the Container the next operation is applied to: the clone, once there is one
Current == Len(containers)

Init ==
    /\ containers = <<NewContainer>>
    /\ arrays = <<>>
    /\ lastCall = NoCall
    /\ snapshot = NoSnapshot
    /\ ops = 0
    /\ input = Idle
    /\ output = NoOutput

\* the outcome r of a mutator call on the current Container
Outcome(op, arg, r) ==
    /\ containers' = [containers EXCEPT ![Current] = r.c]
    /\ lastCall' = [op |-> op, arg |-> arg, err |-> r.err, target |-> Current]

\* a mutator call on the current Container, with its outcome r
Call(op, arg, r) ==
    /\ ops < MaxOps
    /\ Outcome(op, arg, r)
    /\ ops' = ops + 1
    /\ UNCHANGED <<arrays, snapshot, input, output>>

SetImage ==
    \E v \in ImageArgs : Call("setImage", v, setImage(containers[Current], v))

SetContainerName ==
    \E v \in NameArgs :
        Call("setContainerName", v, setContainerName(containers[Current], v))

AddPublishPort ==
    \E v \in PortArgs :
        Call("addPublishPort", v, addPublishPort(containers[Current], v))

AddEnvironment ==
    \E v \in EnvironmentArgs :
        Call("addEnvironment", v, addEnvironment(containers[Current], v))

AddVolume ==
    \E v \in VolumeArgs : Call("addVolume", v, addVolume(containers[Current], v))

AddLabel ==
    \E v \in LabelArgs : Call("addLabel", v, addLabel(containers[Current], v))

\* container.unmask = 'ALL'
SetUnmaskString ==
    \E v \in UnmaskStrings :
        Call("unmask=", S(v), Returned([containers[Current] EXCEPT !.unmask = S(v)]))

\* container.unmask = ['/proc']: a new array object
SetUnmaskArray ==
    /\ ops < MaxOps
    /\ \E a \in UnmaskArrays :
        /\ arrays' = Append(arrays, a)
        /\ containers' = [containers EXCEPT ![Current].unmask = Arr(Len(arrays) + 1)]
        /\ lastCall' = [op |-> "unmask=[]", arg |-> Arr(Len(arrays) + 1),
                        err |-> NoError, target |-> Current]
    /\ ops' = ops + 1
    /\ UNCHANGED <<snapshot, input, output>>

\* container.unmask.push(path): an in-place change of the array object
PushUnmask ==
    /\ ops < MaxOps
    /\ containers[Current].unmask.t = "arr"
    /\ \E v \in UnmaskPushed :
        /\ arrays' = [arrays EXCEPT ![containers[Current].unmask.n] = Append(@, v)]
        /\ lastCall' = [op |-> "unmask.push", arg |-> S(v), err |-> NoError,
                        target |-> Current]
    /\ ops' = ops + 1
    /\ UNCHANGED <<containers, snapshot, input, output>>

\* c2 = c.clone(); the fields of c and the text generated from it are recorded
Clone ==
    /\ ops < MaxOps
    /\ Len(containers) = 1
    /\ containers' = Append(containers, clone(containers[1]))
    /\ snapshot' = [taken |-> TRUE, fields |-> containers[1],
                    text |-> generateFile(containers[1], arrays, NoOptions)]
    /\ lastCall' = [op |-> "clone", arg |-> Undef, err |-> NoError, target |-> 1]
    /\ ops' = ops + 1
    /\ UNCHANGED <<arrays, input, output>>

Next ==
    \/ SetImage
    \/ SetContainerName
    \/ AddPublishPort
    \/ AddEnvironment
    \/ AddVolume
    \/ AddLabel
    \/ SetUnmaskString
    \/ SetUnmaskArray
    \/ PushUnmask
    \/ Clone

Spec == Init /\ [][Next]_vars

(***************************************************************************)
(* addPublishPort on the port strings `(\d+:)?\d+(/proto)?`                *)
(***************************************************************************)
\* the numbers a port string is written from, and the protocol suffixes
PortNumbers == {0, 1, 80, 8080, 65535, 65536, 99999}
PortSuffixes == {<<>>, tcp, udp, sctp, <<"/", "i", "c", "m", "p">>}

\* a port string by its parts: an optional host port, the container port,
\* `zeros` leading zeros on each number, a suffix
PortCases ==
    [hasHost : BOOLEAN, host : PortNumbers, container : PortNumbers,
     zeros : {0, 1}, suffix : PortSuffixes]

PortNumeral(n, zeros) == [i \in 1..zeros |-> "0"] \o NatToStr(n)

PortText(p) ==
    (IF p.hasHost THEN PortNumeral(p.host, p.zeros) \o <<":">> ELSE <<>>)
        \o PortNumeral(p.container, p.zeros) \o p.suffix

InitPort ==
    /\ containers = <<NewContainer>>
    /\ arrays = <<>>
    /\ lastCall = NoCall
    /\ snapshot = NoSnapshot
    /\ ops = 0
    /\ input \in {[kind |-> "port", port |-> p] :
                     p \in {q \in PortCases : q.hasHost \/ q.host = 0}}
    /\ output = NoOutput

\* container.addPublishPort(port) on a new Container
PortCall ==
    /\ input.kind = "port"
    /\ lastCall.op = "none"
    /\ Outcome("addPublishPort", S(PortText(input.port)),
               addPublishPort(containers[1], S(PortText(input.port))))
    /\ ops' = ops + 1
    /\ UNCHANGED <<arrays, snapshot, input, output>>

NextPort == PortCall

SpecPort == InitPort /\ [][NextPort]_vars

\* the port strings of PortCases that match (\d+:)?\d+(/(tcp|udp|sctp))?
MatchingSuffixes == {<<>>, tcp, udp, sctp}

\* C9: for every string matching (\d+:)?\d+(/(tcp|udp|sctp))?, addPublishPort
\* accepts it, appending it to publishPort, if and only if every
\* colon-separated number is in 1..65535; a rejected string raises an error
\* and leaves publishPort as it was.
C9_PortAcceptedIffInRange ==
    (lastCall.op = "addPublishPort" /\ input.port.suffix \in MatchingSuffixes) =>
        LET p        == input.port
            inRange  == /\ p.container \in 1..65535
                        /\ p.hasHost => p.host \in 1..65535
            accepted == /\ lastCall.err = NoError
                        /\ containers[1].publishPort = <<PortText(p)>>
            rejected == /\ lastCall.err # NoError
                        /\ containers[1].publishPort = <<>>
        IN  /\ accepted <=> inRange
            /\ rejected <=> ~inRange

\* the matching string "0:80" has been rejected, publishPort left empty
C9_Witness ==
    /\ lastCall.op = "addPublishPort"
    /\ lastCall.arg = S(<<"0", ":", "8", "0">>)
    /\ lastCall.err # NoError
    /\ containers[1].publishPort = <<>>

(***************************************************************************)
(* generateFile on a Container and every combination of overlays           *)
(***************************************************************************)
\* new Unit(), new Service(), new Install(), new Globals()
NewUnit ==
    [EmptyUnit EXCEPT
        !.keys = {"description", "wants", "requires", "bindTo", "after", "before"},
        !.description = Null]
NewService ==
    [EmptyService EXCEPT
        !.keys = {"restart", "restartSec", "timeoutStartSec", "timeoutStopSec"},
        !.restart = Null, !.restartSec = Null, !.timeoutStartSec = Null]
NewInstall == [EmptyInstall EXCEPT !.keys = {"wantedBy", "requiredBy"}]
NewGlobals == [EmptyGlobals EXCEPT !.keys = {"podmanArgs"}, !.podmanArgs = Null]

\* the overlays the page passes
UiUnit ==
    [EmptyUnit EXCEPT
        !.keys = {"description", "after", "wants", "requires"},
        !.description = S(<<"My custom service description">>),
        !.after = <<networkTarget,
                    <<"p", "o", "d", "m", "a", "n", ".", "s", "e", "r", "v", "i",
                      "c", "e">>>>,
        !.wants = <<networkTarget>>,
        !.requires = <<<<"some-dependency.service">>>>]
UiService ==
    [EmptyService EXCEPT
        !.keys = {"Restart", "RestartSec"},
        !.Restart = S(always), !.RestartSec = S(<<"1", "0">>)]

UnitOverlays == {NoUnit, EmptyUnit, NewUnit, UiUnit}
ServiceOverlays == {NoService, EmptyService, NewService, UiService}
InstallOverlays ==
    {NoInstall, EmptyInstall, NewInstall,
     [EmptyInstall EXCEPT !.keys = {"wantedBy"}, !.wantedBy = <<defaultTarget>>]}
GlobalsOverlays ==
    {NoGlobals, NewGlobals,
     [EmptyGlobals EXCEPT !.keys = {"podmanArgs"},
                          !.podmanArgs = S(<<"--log-level=debug">>)]}

GenOptions ==
    {[name |-> Undef, unit |-> u, service |-> s, install |-> i, globals |-> g] :
        u \in UnitOverlays, s \in ServiceOverlays, i \in InstallOverlays,
        g \in GlobalsOverlays}

\* the Containers the generator is run on, built by the mutators
ImageOnly == setImage(NewContainer, S(nginx)).c
WithPortAndEnvironment ==
    addEnvironment(
        addPublishPort(setContainerName(ImageOnly, S(web)).c,
                       S(<<"8", "0", "8", "0", ":", "8", "0">>)).c,
        S(<<"A", "=", "b", " ", "c">>)).c
GenContainers == {ImageOnly, WithPortAndEnvironment}

InitGen ==
    /\ containers = <<NewContainer>>
    /\ arrays = <<>>
    /\ lastCall = NoCall
    /\ snapshot = NoSnapshot
    /\ ops = 0
    /\ input \in {[kind |-> "generate", container |-> c, options |-> o] :
                     c \in GenContainers, o \in GenOptions}
    /\ output = NoOutput

\* text = QuadletGenerator.generateFile(container, options)
GenerateFile ==
    /\ input.kind = "generate"
    /\ output.kind = "none"
    /\ output' = [kind |-> "file",
                  text |-> generateFile(input.container, NoHeap, input.options)]
    /\ UNCHANGED <<containers, arrays, lastCall, snapshot, ops, input>>

NextGen == GenerateFile

SpecGen == InitGen /\ [][NextGen]_vars

\* the section headers, in the order the format prescribes
SectionOrder ==
    <<"[Unit]", "[Container]", "[GlobalArgs]", "[Service]", "[Install]">>
IsHeader(line) == \E k \in 1..Len(SectionOrder) : line = <<SectionOrder[k]>>
Rank(line) == CHOOSE k \in 1..Len(SectionOrder) : line = <<SectionOrder[k]>>
HeaderLines(text) == {i \in 1..Len(text) : IsHeader(text[i])}

\* C2: for every combination of overlays the text starts with a section, the
\* sections appear in the order [Unit], [Container], [GlobalArgs], [Service],
\* [Install], [Container] is among them, and every section after the first is
\* preceded by exactly one blank line, the only blank lines of the text.
C2_SectionsInOrder ==
    output.kind = "file" =>
        LET text == output.text
        IN  /\ 1 \in HeaderLines(text)
            /\ \A i, j \in HeaderLines(text) :
                   i < j => Rank(text[i]) < Rank(text[j])
            /\ \E i \in HeaderLines(text) : text[i] = <<"[Container]">>
            /\ \A i \in HeaderLines(text) :
                   i > 1 => i > 2 /\ text[i - 1] = <<>> /\ text[i - 2] # <<>>
            /\ \A k \in 1..Len(text) :
                   text[k] = <<>> => (k + 1) \in HeaderLines(text)

\* a file with all five sections has been generated
C2_Witness ==
    /\ output.kind = "file"
    /\ \A k \in 1..Len(SectionOrder) :
           \E i \in 1..Len(output.text) : output.text[i] = <<SectionOrder[k]>>

\* C3: whatever overlay is passed (absent, an empty object, an instance with
\* empty lists and null scalars, a populated one), every section header of
\* the generated text is followed by a key line.
C3_NoEmptySection ==
    output.kind = "file" =>
        \A i \in HeaderLines(output.text) :
            /\ i < Len(output.text)
            /\ output.text[i + 1] # <<>>
            /\ ~IsHeader(output.text[i + 1])

(***************************************************************************)
(* composeToQuadlet and dockerRunToQuadlet on a decoded Compose document   *)
(***************************************************************************)
\* service definitions
Plain == [EmptyServiceDef EXCEPT !.image = S(nginx)]
WithRestart == [Plain EXCEPT !.restart = S(<<"n", "o">>)]
DependsSeq == [Plain EXCEPT !.depends_on = DependsOnSeq(<<db, cache>>)]
DependsMap == [Plain EXCEPT !.depends_on = DependsOnMap(<<<<"1", "0">>, <<"9">>>>)]
NoImage == EmptyServiceDef
BadPort == [Plain EXCEPT !.ports = <<ShortPort(S(<<"0", ":", "8", "0">>))>>]
ServiceDefs == {Plain, WithRestart, DependsSeq, DependsMap, NoImage, BadPort}

ServiceNames == {web, <<"1", "0">>, <<"9">>}

\* the services mappings of n entries with distinct names
RECURSIVE MapsOf(_)
MapsOf(n) ==
    IF n = 0 THEN {<<>>}
    ELSE {Append(m, [name |-> k, def |-> d]) :
             m \in MapsOf(n - 1),
             k \in ServiceNames, d \in ServiceDefs}

DistinctNames(m) == \A i, j \in 1..Len(m) : i # j => m[i].name # m[j].name

\* the services mappings: up to MaxServices entries with distinct names
ServiceMaps ==
    {m \in UNION {MapsOf(n) : n \in 1..MaxServices} : DistinctNames(m)}

\* the overlays of the caller
CallerUnit ==
    [EmptyUnit EXCEPT !.keys = {"after", "wants"},
                      !.after = <<dbService>>, !.wants = <<networkTarget>>]
LowerService ==
    [EmptyService EXCEPT !.keys = {"restart"}, !.restart = S(onFailure)]
ComposeOptions ==
    {[name |-> Undef, unit |-> u, service |-> s, install |-> NoInstall,
      globals |-> NoGlobals] :
        u \in {NoUnit, CallerUnit}, s \in {NoService, UiService, LowerService}}

NotCalled == [called |-> FALSE, err |-> NoError, results |-> <<>>]
RunNotCalled == [called |-> FALSE, err |-> NoError, content |-> <<>>]
\* the outcome r of a call
Called(r) == [called |-> TRUE, err |-> r.err, results |-> r.results]
RunCalled(r) == [called |-> TRUE, err |-> r.err, content |-> r.content]

InitCompose ==
    /\ containers = <<NewContainer>>
    /\ arrays = <<>>
    /\ lastCall = NoCall
    /\ snapshot = NoSnapshot
    /\ ops = 0
    /\ input \in {[kind |-> "compose", compose |-> Document(m), options |-> o] :
                     m \in ServiceMaps, o \in ComposeOptions}
    /\ output = [kind |-> "conversions", compose |-> NotCalled, run |-> RunNotCalled]

\* results = podlet.composeToQuadlet(yamlContent, options)
ComposeToQuadlet ==
    /\ input.kind = "compose"
    /\ ~output.compose.called
    /\ output' = [output EXCEPT
           !.compose = Called(composeToQuadlet(input.compose, input.options))]
    /\ UNCHANGED <<containers, arrays, lastCall, snapshot, ops, input>>

\* text = podlet.dockerRunToQuadlet(command, options), for a command the
\* run-to-compose converter turns into the one service of the document
DockerRunToQuadlet ==
    /\ input.kind = "compose"
    /\ Len(input.compose.services) = 1
    /\ ~output.run.called
    /\ output' = [output EXCEPT
           !.run = RunCalled(dockerRunToQuadlet(input.compose, input.options))]
    /\ UNCHANGED <<containers, arrays, lastCall, snapshot, ops, input>>

NextCompose ==
    \/ ComposeToQuadlet
    \/ DockerRunToQuadlet

SpecCompose == InitCompose /\ [][NextCompose]_vars

\* composeToQuadlet has returned its results
HasConverted == output.compose.called /\ output.compose.err = NoError

ContainerFile(serviceName) ==
    serviceName \o <<".", "c", "o", "n", "t", "a", "i", "n", "e", "r">>

\* the unit text returned for a service, <<>> if there is none
ContentFor(serviceName) ==
    LET rs == output.compose.results
        at == {i \in 1..Len(rs) : rs[i].filename = ContainerFile(serviceName)}
    IN  IF at = {} THEN <<>> ELSE rs[CHOOSE i \in at : TRUE].content

\* the values of the lines `key...` of a text
ValuesOf(text, key) ==
    LET lines == SelectSeq(text, LAMBDA l : l # <<>> /\ Head(l) = key)
    IN  [i \in 1..Len(lines) |-> Tail(lines[i])]

\* the units listed on the line `key...`, <<>> if there is no such line
UnitsOn(text, key) ==
    IF ValuesOf(text, key) = <<>> THEN <<>> ELSE Split(ValuesOf(text, key)[1], " ")

Range(seq) == {seq[i] : i \in 1..Len(seq)}
LastIndex(seq, x) ==
    IF x \in Range(seq)
    THEN CHOOSE i \in 1..Len(seq) :
             seq[i] = x /\ \A j \in (i + 1)..Len(seq) : seq[j] # x
    ELSE 0

\* the names a service declares in depends_on, in declaration order
Declared(def) == def.depends_on.names

\* C1: for a document with the single service S, dockerRunToQuadlet returns
\* the same unit text as the content composeToQuadlet returns for S with the
\* same options, also when S has a restart policy or a depends_on list.
C1_RunEqualsCompose ==
    (output.run.called /\ output.run.err = NoError /\ HasConverted) =>
        output.run.content = output.compose.results[1].content

\* dependencies d1..dn are listed on the line `key`, in declaration order and
\* after the caller's entries; with no depends_on the line is the caller's
DependenciesListed(text, key, caller, deps) ==
    LET units == UnitsOn(text, key)
    IN  /\ \A i \in 1..Len(deps) : ServiceUnits(deps)[i] \in Range(units)
        /\ \A i, j \in 1..Len(deps) :
               i < j => LastIndex(units, ServiceUnits(deps)[i])
                            < LastIndex(units, ServiceUnits(deps)[j])
        /\ \A i \in 1..Len(deps) :
               ServiceUnits(deps)[i] \notin Range(caller)
                   => LastIndex(units, ServiceUnits(deps)[i]) > Len(caller)
        /\ deps = <<>> => units = caller

\* C4: for every service whose depends_on (sequence or mapping) names d1..dn,
\* the After= and Wants= lines each contain di.service for every i, in
\* declaration order and after the caller's entries; a service without
\* depends_on gets the caller's entries only.
C4_DependsOnInDeclarationOrder ==
    HasConverted =>
        \A i \in 1..Len(input.compose.services) :
            LET s    == input.compose.services[i]
                text == ContentFor(s.name)
            IN  /\ DependenciesListed(text, "After=", input.options.unit.after,
                                      Declared(s.def))
                /\ DependenciesListed(text, "Wants=", input.options.unit.wants,
                                      Declared(s.def))

\* C5: when the caller's Service overlay sets a restart value, as `restart` or
\* as `Restart`, and the service declares a restart policy, the Restart= line
\* carries the caller's value.
C5_CallerRestartWins ==
    HasConverted =>
        \A i \in 1..Len(input.compose.services) :
            LET s      == input.compose.services[i]
                caller == Or(input.options.service.restart,
                             input.options.service.Restart)
            IN  (Truthy(caller) /\ Truthy(s.def.restart)) =>
                    ValuesOf(ContentFor(s.name), "Restart=") = <<ToStr(caller)>>

\* the units of the line `key` are those of the caller and of depends_on, each
\* listed once
UnionListed(text, key, caller, deps) ==
    LET units == UnitsOn(text, key)
    IN  /\ Range(units) = Range(caller) \cup Range(ServiceUnits(deps))
        /\ \A k, l \in 1..Len(units) : k # l => units[k] # units[l]

\* C6: the After= and Wants= lines list the set union of the caller's units
\* and the .service-suffixed dependencies: a unit that is both appears once.
C6_AfterWantsAreUnion ==
    HasConverted =>
        \A i \in 1..Len(input.compose.services) :
            LET s    == input.compose.services[i]
                text == ContentFor(s.name)
            IN  /\ UnionListed(text, "After=", input.options.unit.after,
                               Declared(s.def))
                /\ UnionListed(text, "Wants=", input.options.unit.wants,
                               Declared(s.def))

\* C7: composeToQuadlet returns one entry per service, named
\* <serviceName>.container, in the order of the services in the document.
C7_ResultsInDocumentOrder ==
    HasConverted =>
        /\ Len(output.compose.results) = Len(input.compose.services)
        /\ \A i \in 1..Len(input.compose.services) :
               output.compose.results[i].filename
                   = ContainerFile(input.compose.services[i].name)

\* the conversion of service i of the document on its own fails
FailsAlone(i) ==
    composeToQuadlet(Document(<<input.compose.services[i]>>), input.options).err
        # NoError

\* C8: composeToQuadlet returns an entry with unit text for every service, or
\* raises an error and returns nothing; it raises whenever one service, at
\* any position, fails validation or mapping.
C8_AllOrNothing ==
    output.compose.called =>
        /\ \/ /\ output.compose.err = NoError
              /\ Len(output.compose.results) = Len(input.compose.services)
              /\ \A i \in 1..Len(input.compose.services) :
                     ContentFor(input.compose.services[i].name) # <<>>
           \/ /\ output.compose.err # NoError
              /\ output.compose.results = <<>>
        /\ (\E i \in 1..Len(input.compose.services) : FailsAlone(i))
               => output.compose.err # NoError

\* a document whose first service is valid and whose second has the port
\* "0:80" has been rejected as a whole
C8_Witness ==
    /\ output.compose.called
    /\ Len(input.compose.services) = 2
    /\ input.compose.services[1].def = Plain
    /\ input.compose.services[2].def = BadPort
    /\ output.compose.err # NoError
    /\ output.compose.results = <<>>

(***************************************************************************)
(* clone() in the Container machine                                        *)
(***************************************************************************)
\* C10: after c2 = c.clone(), no mutation of c2, in-place changes of its
\* lists and of an array-valued unmask included, changes a field of c or the
\* text generated from c.
C10_CloneIsIndependent ==
    snapshot.taken =>
        /\ containers[1] = snapshot.fields
        /\ generateFile(containers[1], arrays, NoOptions) = snapshot.text

(***************************************************************************)
(* The serializer on a Container with one populated field                  *)
(***************************************************************************)
\* longest Environment / Label / Annotation entry tried
MaxValueLen == 3

\* the properties of a Container, by the kind of value the constructor gives
ListFields ==
    {"addCapability", "dropCapability", "addDevice", "mount", "volume",
     "network", "networkAlias", "publishPort", "exposeHostPort", "dns",
     "dnsOption", "dnsSearch", "environment", "environmentFile", "mask",
     "groupAdd", "uidMap", "gidMap", "tmpfs", "label", "logOpt", "annotation",
     "ulimit", "sysctl", "secret"}
FlagFields ==
    {"environmentHost", "noNewPrivileges", "securityLabelDisable",
     "securityLabelNested", "readOnly", "readOnlyTmpfs", "runInit"}
ScalarFields ==
    {"containerName", "exec", "ip", "ip6", "securityLabelFileType",
     "securityLabelLevel", "securityLabelType", "seccompProfile", "unmask",
     "user", "group", "userNS", "subUidMap", "subGidMap", "workingDir",
     "hostName", "timezone", "shmSize", "healthCmd", "healthInterval",
     "healthOnFailure", "healthRetries", "healthStartPeriod",
     "healthStartupCmd", "healthStartupInterval", "healthStartupRetries",
     "healthStartupSuccess", "healthStartupTimeout", "healthTimeout",
     "notify", "stopSignal", "stopTimeout", "pod", "logDriver", "pidsLimit",
     "autoUpdate", "pull", "rootfs", "entrypoint", "podmanArgs"}
\* the list properties whose entries are written through escapeValue
EscapedFields == {"environment", "label", "annotation"}

pathX == <<"/", "x">>
wordY == <<"y">>
port80 == <<"8", "0">>
port8080to80 == <<"8", "0", "8", "0", ":", "8", "0">>

\* the lists a list property is populated with; the last port list fails
\* validate()
FieldLists(f) ==
    IF f = "publishPort"
    THEN {<<port80>>, <<port8080to80, port80 \o udp>>, <<<<"0">>>>}
    ELSE {<<pathX>>, <<pathX, wordY>>, <<wordY, pathX>>, <<pathX, none>>}

FieldScalars(f) ==
    IF f = "notify"
    THEN {S(<<"container">>), S(<<"healthy">>), S(pathX)}
    ELSE {S(pathX), N(7)}

\* the entries an escaped list property is populated with
EscapeAlphabet == {"a", " ", "\\", "\""}
EscapeCases == UNION {[1..n -> EscapeAlphabet] : n \in 1..MaxValueLen}

FieldContainers ==
    UNION {{[ImageOnly EXCEPT ![f] = l] : l \in FieldLists(f)} : f \in ListFields}
    \cup {[ImageOnly EXCEPT ![f] = ~@] : f \in FlagFields}
    \cup UNION {{[ImageOnly EXCEPT ![f] = v] : v \in FieldScalars(f)} :
                   f \in ScalarFields}
    \cup {[ImageOnly EXCEPT ![f] = <<v>>] : f \in EscapedFields, v \in EscapeCases}

FieldOptions ==
    {NoOptions, [NoOptions EXCEPT !.unit = UiUnit, !.service = UiService]}

\* The Container after validate() and after generateFile(): both only read
\* it (split, parseInt, forEach, join, includes, template literals); no
\* statement assigns to a property or changes a list in place.
AfterValidate(c) == c

\* the Container after a generateFile that empties the list it writes out
AfterGenerateFileDraining(c) == [c EXCEPT !.publishPort = <<>>]

AfterGenerateFile(c) == c

\* the Container after containerToQuadlet: generateFile runs only if
\* validate() returned
AfterContainerToQuadlet(c, error) ==
    IF error # NoError THEN AfterValidate(c)
    ELSE AfterGenerateFile(AfterValidate(c))

InitFields ==
    /\ containers \in {<<c>> : c \in FieldContainers}
    /\ arrays = <<>>
    /\ lastCall = NoCall
    /\ snapshot = NoSnapshot
    /\ ops = 0
    /\ input = Idle
    /\ output = NoOutput

\* text = podlet.containerToQuadlet(container, options)
ContainerToQuadlet ==
    /\ output.kind = "none"
    /\ \E o \in FieldOptions :
        output' = [kind |-> "quadlet", options |-> o, before |-> containers[1],
                   result |-> containerToQuadlet(containers[1], o)]
    /\ containers' = [containers EXCEPT
           ![1] = AfterContainerToQuadlet(@, validate(@))]
    /\ UNCHANGED <<arrays, lastCall, snapshot, ops, input>>

NextFields ==
    \/ Clone
    \/ ContainerToQuadlet

SpecFields == InitFields /\ [][NextFields]_vars

\* C11: for every Container c and all options, generateFile(c.clone(),
\* options) is the same text as generateFile(c, options): clone() carries
\* over every property the serializer reads.
C11_CloneSerializesIdentically ==
    Len(containers) = 2 =>
        \A o \in FieldOptions :
            generateFile(containers[2], arrays, o)
                = generateFile(containers[1], arrays, o)

\* a Container with two secrets has been cloned, and the text of the clone
\* has both Secret= lines
C11_Witness ==
    /\ Len(containers) = 2
    /\ lastCall.op = "clone"
    /\ containers[1].secret = <<pathX, wordY>>
    /\ ValuesOf(generateFile(containers[2], arrays, NoOptions), "Secret=")
           = <<pathX, wordY>>

\* the key generateContainerSection writes an escaped list under
EscapedKey(f) ==
    CASE f = "environment" -> "Environment="
      [] f = "label"       -> "Label="
      [] f = "annotation"  -> "Annotation="

\* Reading a quoted value back: w is `"`, then for each character of v either
\* the character itself, or `\` and the character when it is `\` or `"`,
\* then `"`.
RECURSIVE IsEscapeOf(_, _)
IsEscapeOf(w, v) ==
    IF v = <<>> THEN w = <<>>
    ELSE IF Head(v) \in {"\\", "\""}
    THEN /\ Len(w) >= 2
         /\ w[1] = "\\"
         /\ w[2] = Head(v)
         /\ IsEscapeOf(SubSeq(w, 3, Len(w)), Tail(v))
    ELSE /\ Len(w) >= 1
         /\ w[1] = Head(v)
         /\ IsEscapeOf(Tail(w), Tail(v))

IsQuotedFormOf(w, v) ==
    /\ Len(w) >= 2
    /\ w[1] = "\""
    /\ w[Len(w)] = "\""
    /\ IsEscapeOf(SubSeq(w, 2, Len(w) - 1), v)

\* how an entry v of an escaped list is written as w
WrittenAs(w, v) ==
    IF \E i \in 1..Len(v) : v[i] = " " THEN IsQuotedFormOf(w, v) ELSE w = v

\* the unit text containerToQuadlet returned
Generated == output.kind = "quadlet" /\ output.result.err = NoError

ListKey(f) ==
    CASE f = "addCapability"   -> "AddCapability="
      [] f = "dropCapability"  -> "DropCapability="
      [] f = "addDevice"       -> "AddDevice="
      [] f = "mount"           -> "Mount="
      [] f = "volume"          -> "Volume="
      [] f = "network"         -> "Network="
      [] f = "networkAlias"    -> "NetworkAlias="
      [] f = "publishPort"     -> "PublishPort="
      [] f = "exposeHostPort"  -> "ExposeHostPort="
      [] f = "dns"             -> "DNS="
      [] f = "dnsOption"       -> "DNSOption="
      [] f = "dnsSearch"       -> "DNSSearch="
      [] f = "environment"     -> "Environment="
      [] f = "environmentFile" -> "EnvironmentFile="
      [] f = "mask"            -> "Mask="
      [] f = "groupAdd"        -> "GroupAdd="
      [] f = "uidMap"          -> "UIDMap="
      [] f = "gidMap"          -> "GIDMap="
      [] f = "tmpfs"           -> "Tmpfs="
      [] f = "label"           -> "Label="
      [] f = "logOpt"          -> "LogOpt="
      [] f = "annotation"      -> "Annotation="
      [] f = "ulimit"          -> "Ulimit="
      [] f = "sysctl"          -> "Sysctl="
      [] f = "secret"          -> "Secret="

\* the list properties written on one line, and what joins their elements
JoinedFields == {"addCapability", "dropCapability", "mask"}
Joiner(f) == IF f = "mask" THEN <<":">> ELSE <<" ">>

\* the values a populated list is to be written as, line by line
ExpectedValues(f, list) ==
    IF f \in JoinedFields THEN <<Join(list, Joiner(f))>>
    ELSE IF f \in EscapedFields
    THEN [i \in 1..Len(list) |-> escapeValue(list[i])]
    ELSE list

\* the list properties generateContainerSection writes no line for
UnwrittenFields == {"addDevice", "mount", "exposeHostPort"}

\* C13: in the [Container] block every populated list property is written:
\* one Key=value line per element, in list order (devices, mounts, exposed
\* host ports and every DNS entry included), except AddCapability and
\* DropCapability (one line, joined by spaces) and Mask (one line, joined by
\* `:`).
C13_EveryListWritten ==
    Generated =>
        \A f \in ListFields :
            output.before[f] # <<>> =>
                ValuesOf(output.result.content, ListKey(f))
                    = ExpectedValues(f, output.before[f])

(***************************************************************************)
(* parse on a Compose document, and the Containers it returns renamed by   *)
(* the caller                                                              *)
(***************************************************************************)
noNewPrivilegesTrue ==
    <<"n", "o", "-", "n", "e", "w", "-", "p", "r", "i", "v", "i", "l", "e",
      "g", "e", "s", ":", "t", "r", "u", "e">>
labelDisable ==
    <<"l", "a", "b", "e", "l", "=", "d", "i", "s", "a", "b", "l", "e">>
seccompUnconfined ==
    <<"s", "e", "c", "c", "o", "m", "p", "=", "u", "n", "c", "o", "n", "f",
      "i", "n", "e", "d">>
\* security_opt values with a space, with `$`, with `\` and with `"`
labelWithSpace == <<"l", "a", "b", "e", "l", "=", "a", " ", "b">>
labelWithDollar == <<"l", "a", "b", "e", "l", "=", "a", "$", "b">>
labelWithBackslash == <<"l", "a", "b", "e", "l", "=", "a", "\\", "b">>
labelWithQuote == <<"l", "a", "b", "e", "l", "=", "a", "\"", " ", "b">>

SecurityOptLists ==
    {<<noNewPrivilegesTrue>>, <<labelDisable>>, <<labelDisable \o <<":", "x">>>>,
     <<seccompUnconfined>>, <<labelWithSpace>>, <<labelWithDollar>>,
     <<labelWithBackslash>>, <<labelWithQuote>>,
     <<noNewPrivilegesTrue, seccompUnconfined, labelWithSpace>>}

UserValues ==
    {S(<<"u">>), S(<<"u", ":", "g">>), S(<<"a", ":", "b", ":", "c">>),
     S(<<"u", ":">>), N(1000)}

NullService == [EmptyServiceDef EXCEPT !.isMapping = FALSE]
BuildOnly == [EmptyServiceDef EXCEPT !.build = S(<<".">>)]

\* long-form entries of `volumes`: tmpfs mounts without and with a size (one
\* with a source and read_only, which the mapper does not read), bind mounts
\* and named volumes with and without read_only, a volume with no source,
\* and one whose target alone is no volume addVolume accepts
tmpfsType == S(<<"t", "m", "p", "f", "s">>)
bindType == S(<<"b", "i", "n", "d">>)
volumeType == S(<<"v", "o", "l", "u", "m", "e">>)
pathA == <<"/", "a">>
pathB == <<"/", "b">>
size64m == <<"6", "4", "m">>
LongVolumes ==
    {LongVolume(tmpfsType, Undef, S(pathX), FALSE, Undef),
     LongVolume(tmpfsType, Undef, S(pathX), FALSE, S(size64m)),
     LongVolume(tmpfsType, S(pathA), S(pathB), TRUE, N(64)),
     LongVolume(bindType, S(pathA), S(pathB), FALSE, Undef),
     LongVolume(bindType, S(pathA), S(pathB), TRUE, Undef),
     LongVolume(volumeType, S(db), S(pathB), FALSE, S(size64m)),
     LongVolume(volumeType, Undef, S(pathB), TRUE, Undef),
     LongVolume(Undef, Undef, S(<<"b">>), FALSE, Undef)}
VolumeEntries == LongVolumes \cup {ShortVolume(S(pathA \o <<":">> \o pathX))}
VolumeLists ==
    {<<a>> : a \in VolumeEntries} \cup {<<a, b>> : a, b \in VolumeEntries}

\* services with long-form volumes, one of them with a `tmpfs` key as well
VolumeDefs ==
    {[Plain EXCEPT !.volumes = l] : l \in VolumeLists}
    \cup {[Plain EXCEPT !.volumes = <<a>>, !.tmpfs = List(<<<<"/", "r", "u", "n">>>>)] :
             a \in LongVolumes}

\* entries of a `networks` mapping: with no configuration (`front:`), with
\* an empty one, with an address, with aliases, and with both
front == <<"f", "r", "o", "n", "t">>
back == <<"b", "a", "c", "k">>
address == <<"1", "0", ".", "0", ".", "0", ".", "2">>
aliasApp == <<"a", "p", "p">>
aliasWww == <<"w", "w", "w">>
NetworkEntries ==
    {NetworkNoConfig(front),
     NetworkConfig(front, Undef, <<>>),
     NetworkConfig(front, S(address), <<>>),
     NetworkConfig(back, Undef, <<aliasApp, aliasWww>>),
     NetworkConfig(back, S(address), <<aliasApp>>),
     NetworkConfig(<<"1">>, Undef, <<aliasWww>>)}
NetworkMaps ==
    {<<a>> : a \in NetworkEntries}
    \cup {m \in {<<a, b>> : a, b \in NetworkEntries} : m[1].name # m[2].name}

\* services with a `networks` mapping, and one with an array of names
NetworkDefs ==
    {[Plain EXCEPT !.networks = NetworkMap(m)] : m \in NetworkMaps}
    \cup {[Plain EXCEPT !.networks = NetworkArray(<<front, back>>)]}

\* long-form entries of `ports`: the target a number or a string, or 0;
\* published absent, a number or a string; the protocol absent, tcp, udp,
\* sctp, or one addPublishPort does not know
icmp == <<"i", "c", "m", "p">>
LongPorts ==
    {LongPort(t, p, q) :
        t \in {N(80), S(port80), N(0)},
        p \in {Undef, N(8080), S(<<"8", "0", "8", "0">>)},
        q \in {Undef, S(<<"t", "c", "p">>), S(<<"u", "d", "p">>),
               S(<<"s", "c", "t", "p">>), S(icmp)}}

\* services with one long-form port, alone or after a short-form one
PortDefs ==
    {[Plain EXCEPT !.ports = <<p>>] : p \in LongPorts}
    \cup {[Plain EXCEPT !.ports = <<ShortPort(S(port80 \o udp)), p>>] :
             p \in {LongPort(N(80), N(8080), q) :
                       q \in {Undef, S(<<"u", "d", "p">>), S(icmp)}}}

\* the definitions of the field mappings: each is tried as the one service `web`
MappingDefs == VolumeDefs \cup NetworkDefs \cup PortDefs

\* the definitions a single service is tried with
ParseServiceDefs ==
    {Plain, NoImage, NullService, BuildOnly,
     [Plain EXCEPT !.image = N(1)], [Plain EXCEPT !.image = S(<<" ">>)]}
    \cup {[Plain EXCEPT !.user = u] : u \in UserValues}
    \cup {[Plain EXCEPT !.security_opt = List(l)] : l \in SecurityOptLists}
    \cup {[Plain EXCEPT !.security_opt = Scalar(seccompUnconfined)]}
    \cup {[Plain EXCEPT !.container_name = n] : n \in NameArgs}

\* service keys; the last one is not a valid container name
ParseServiceNames == {web, db, <<"-", "w">>}

\* the services mappings of n entries over the given names and definitions
RECURSIVE MapsOver(_, _, _)
MapsOver(n, names, defs) ==
    IF n = 0 THEN {<<>>}
    ELSE {Append(m, [name |-> k, def |-> d]) :
             m \in MapsOver(n - 1, names, defs), k \in names, d \in defs}

TopLevelKey == {"absent", "empty", "nonempty"}

\* the documents parsed: one service with each definition; up to
\* MaxServices services, some of them without an image or null; a top-level
\* configs or secrets key; no services key, or an empty one
ParseDocuments ==
    {Document(m) : m \in MapsOver(1, ParseServiceNames, ParseServiceDefs)}
    \cup {Document(m) :
             m \in {x \in UNION {MapsOver(n, ParseServiceNames,
                                          {Plain, NoImage, NullService}) :
                                    n \in 2..MaxServices} : DistinctNames(x)}}
    \cup {[Document(<<[name |-> web, def |-> Plain]>>) EXCEPT
              !.configs = c, !.secrets = s] : c, s \in TopLevelKey}
    \cup {Document(<<[name |-> web, def |-> d]>>) : d \in MappingDefs}
    \cup {EmptyDocument, Document(<<>>)}

InitParse ==
    /\ containers = <<NewContainer>>
    /\ arrays = <<>>
    /\ lastCall = NoCall
    /\ snapshot = NoSnapshot
    /\ ops = 0
    /\ input \in {[kind |-> "document", compose |-> d] : d \in ParseDocuments}
    /\ output = NoOutput

\* parse returned p: the caller holds the Containers of p, if any
ParseReturned(p) ==
    /\ output' = [kind |-> "parsed", err |-> p.err, containers |-> p.containers]
    /\ containers' =
           IF p.containers = <<>> THEN containers
           ELSE [i \in 1..Len(p.containers) |-> p.containers[i].container]
    /\ lastCall' = [op |-> "parse", arg |-> Undef, err |-> p.err, target |-> 0]

\* containers = composeParser.parse(yamlContent)
Parse ==
    /\ input.kind = "document"
    /\ output.kind = "none"
    /\ ParseReturned(parse(input.compose))
    /\ UNCHANGED <<arrays, snapshot, ops, input>>

NextParse ==
    \/ Parse
    \/ SetContainerName

SpecParse == InitParse /\ [][NextParse]_vars

\* parse has been called, and has returned Containers
ParseCalled == output.kind = "parsed"
ParseSucceeded == ParseCalled /\ output.err = NoError

\* the definition of the service a returned Container was mapped from
DefinitionOf(serviceName) ==
    LET es == input.compose.services
    IN  es[CHOOSE i \in 1..Len(es) : es[i].name = serviceName].def

\* the text of s before its first `:` and all of the text after it
BeforeFirstColon(s) == SubSeq(s, 1, IndexOf(s, ":") - 1)
AfterFirstColon(s) == SubSeq(s, IndexOf(s, ":") + 1, Len(s))

\* C14: a Compose `user` value with `:` is split on the first `:` only, the
\* user being the text before it and the group all of the text after it
\* (`a:b:c` gives user `a`, group `b:c`); a value with no colon sets the
\* user and leaves the group unset.
C14_UserSplitOnFirstColon ==
    ParseSucceeded =>
        \A i \in 1..Len(output.containers) :
            LET user == DefinitionOf(output.containers[i].name).user
                c    == output.containers[i].container
            IN  Truthy(user) =>
                    IF Includes(ToStr(user), ":")
                    THEN /\ c.user = S(BeforeFirstColon(ToStr(user)))
                         /\ c.group = S(AfterFirstColon(ToStr(user)))
                    ELSE /\ c.user = S(ToStr(user))
                         /\ c.group = Null

\* the security_opt values that set a flag of the Container
SetsNoNewPrivileges(opt) == opt = noNewPrivilegesTrue
SetsLabelDisable(opt) == StartsWith(opt, labelDisable)

\* the values of a security_opt field that are neither
PassedThrough(field) ==
    SelectSeq(field.items,
              LAMBDA opt : ~SetsNoNewPrivileges(opt) /\ ~SetsLabelDisable(opt))

\* `--security-opt <value>` for each value, the value escaped by the rule of
\* the serializer, joined by single spaces
SecurityOptArgs(values) ==
    Join([i \in 1..Len(values) |->
              <<"--security-opt", " ">> \o escapeValue(values[i])], <<" ">>)

\* C15: every security_opt value other than `no-new-privileges:true` and
\* those beginning with `label=disable` is appended to the raw Podman
\* arguments as `--security-opt <value>`, the value escaped by the
\* serializer's rule (quoted and backslash/quote-escaped exactly when it has
\* a space, otherwise verbatim); the two special values set noNewPrivileges
\* and securityLabelDisable and add nothing to the raw arguments.
C15_SecurityOptEscapedAsValues ==
    ParseSucceeded =>
        \A i \in 1..Len(output.containers) :
            LET field == DefinitionOf(output.containers[i].name).security_opt
                c     == output.containers[i].container
            IN  /\ c.noNewPrivileges
                       = \E k \in 1..Len(field.items) :
                             SetsNoNewPrivileges(field.items[k])
                /\ c.securityLabelDisable
                       = \E k \in 1..Len(field.items) :
                             /\ ~SetsNoNewPrivileges(field.items[k])
                             /\ SetsLabelDisable(field.items[k])
                /\ c.podmanArgs
                       = IF PassedThrough(field) = <<>> THEN Null
                         ELSE S(SecurityOptArgs(PassedThrough(field)))

\* C16: parse rejects the whole document, returning no Containers, whenever
\* a top-level `configs` or `secrets` key is present (whatever its content,
\* an empty mapping included), and whenever the document has no `services`
\* or an empty `services` map.
C16_UnsupportedTopLevelRejected ==
    (/\ ParseCalled
     /\ \/ input.compose.configs # "absent"
        \/ input.compose.secrets # "absent"
        \/ ~input.compose.hasServices
        \/ input.compose.services = <<>>) =>
        /\ output.err # NoError
        /\ output.containers = <<>>

\* a service whose mandatory field is missing or malformed: the definition
\* is null, it has neither image nor build, or its image is not a non-empty
\* string
MandatoryFieldFault(def) ==
    \/ ~def.isMapping
    \/ ~Truthy(def.image) /\ ~Truthy(def.build)
    \/ Truthy(def.image) /\ (~IsString(def.image) \/ Trim(def.image.s) = <<>>)

\* the text `name` occurs in the message
Names(message, name) ==
    \E i \in 1..Len(message) :
        /\ i + Len(name) - 1 <= Len(message)
        /\ SubSeq(message, i, i + Len(name) - 1) = name

\* the services of the document are otherwise well formed: valid names, no
\* unsupported top-level key
OnlyMandatoryFieldFaults ==
    /\ input.compose.hasServices
    /\ input.compose.configs = "absent"
    /\ input.compose.secrets = "absent"
    /\ \A i \in 1..Len(input.compose.services) :
        LET e == input.compose.services[i]
        IN  /\ e.name \in {web, db}
            /\ e.def.isMapping => ~Truthy(e.def.container_name)

\* C17: whenever parse rejects a document because a service's mandatory
\* field is missing or malformed (neither image nor build, an image that is
\* not a non-empty string, a null definition), the error raised names the
\* offending service.
C17_ErrorNamesService ==
    (/\ ParseCalled
     /\ output.err # NoError
     /\ OnlyMandatoryFieldFaults
     /\ \E i \in 1..Len(input.compose.services) :
            MandatoryFieldFault(input.compose.services[i].def)) =>
        \E i \in 1..Len(input.compose.services) :
            /\ MandatoryFieldFault(input.compose.services[i].def)
            /\ Names(output.err, input.compose.services[i].name)

(***************************************************************************)
(* The lines of a Container built by its mutators, read back by the parse  *)
(* functions of the value types (src/unnamed/part_001)                     *)
(***************************************************************************)
\* PortMapping.parse(portString): {hostPort, containerPort, protocol}
PortMappingPart(portPart, protocol) ==
    IF Includes(portPart, ":")
    THEN [hostPort |-> Split(portPart, ":")[1],
          containerPort |-> Split(portPart, ":")[2], protocol |-> protocol]
    ELSE [hostPort |-> portPart, containerPort |-> portPart,
          protocol |-> protocol]

PortMappingParse(portString) ==
    IF Includes(portString, "/")
    THEN PortMappingPart(Split(portString, "/")[1], Split(portString, "/")[2])
    ELSE PortMappingPart(portString, <<"t", "c", "p">>)

\* Environment.parse(envString): {key, value}
EnvironmentParse(envString) ==
    IF IndexOf(envString, "=") = 0
    THEN [key |-> envString, value |-> <<>>]
    ELSE [key |-> SubSeq(envString, 1, IndexOf(envString, "=") - 1),
          value |-> SubSeq(envString, IndexOf(envString, "=") + 1,
                           Len(envString))]

\* Volume.parse(volumeString): {source, destination, options}, or the Error
\* thrown
VolumeParts(parts, volumeString) ==
    IF Len(parts) < 2
    THEN [err |-> <<"Invalid volume format: ">> \o volumeString,
          source |-> <<>>, destination |-> <<>>, options |-> <<>>]
    ELSE [err |-> NoError, source |-> parts[1], destination |-> parts[2],
          options |-> IF Len(parts) > 2 THEN Split(parts[3], ",") ELSE <<>>]

VolumeParse(volumeString) == VolumeParts(Split(volumeString, ":"), volumeString)

\* the values written after `key` in the text, each read back by Read
ReadBack(text, key, Read(_)) ==
    [i \in 1..Len(ValuesOf(text, key)) |-> Read(ValuesOf(text, key)[i])]

\* text = generateFile(container); the PublishPort=, Environment= and
\* Volume= values of the text are parsed back
RoundTripOf(c, text) ==
    [kind |-> "roundtrip", before |-> c, text |-> text,
     ports |-> ReadBack(text, "PublishPort=", PortMappingParse),
     environment |-> ReadBack(text, "Environment=", EnvironmentParse),
     volumes |-> ReadBack(text, "Volume=", VolumeParse)]

RoundTrip ==
    /\ output.kind = "none"
    /\ output' = RoundTripOf(containers[1],
                             generateFile(containers[1], arrays, NoOptions))
    /\ UNCHANGED <<containers, arrays, lastCall, snapshot, ops, input>>

NextRoundTrip ==
    \/ AddPublishPort
    \/ AddEnvironment
    \/ AddVolume
    \/ RoundTrip

SpecRoundTrip == Init /\ [][NextRoundTrip]_vars

\* the structured form of each entry of a list
EachParsed(list, Read(_)) == [i \in 1..Len(list) |-> Read(list[i])]

\* C18: for every port, environment and volume value accepted by the
\* mutators, parsing the text written after PublishPort=, Environment= and
\* Volume= with PortMapping.parse, Environment.parse and Volume.parse gives
\* structured values equal to those of the values set (a `tcp` suffix apart),
\* also for an environment value with spaces and for a volume given as a
\* bare absolute path.
C18_RoundTrip ==
    output.kind = "roundtrip" =>
        /\ output.ports = EachParsed(output.before.publishPort, PortMappingParse)
        /\ output.environment
               = EachParsed(output.before.environment, EnvironmentParse)
        /\ output.volumes = EachParsed(output.before.volume, VolumeParse)
        /\ \A i \in 1..Len(output.volumes) : output.volumes[i].err = NoError

NameCharacters == Letters \cup Digits \cup {"_", ".", "-"}
WellFormedName(s) ==
    /\ Len(s) >= 1
    /\ s[1] \notin {"_", ".", "-"}
    /\ \A i \in 1..Len(s) : s[i] \in NameCharacters

\* the name the mapper gives the Container of a service
MappedName(serviceName, def) ==
    IF Truthy(def.container_name) THEN def.container_name ELSE S(serviceName)

\* C20: after any sequence of setContainerName calls and any Compose
\* mapping (an explicit container_name wins, otherwise the service key is
\* used), the name of a Container is unset or matches
\* ^[A-Za-z0-9][A-Za-z0-9_.-]*$; `my_app-1` is accepted, `-bad` and
\* `bad name` are rejected with an error.
C20_NameUnsetOrWellFormed ==
    /\ \A i \in 1..Len(containers) :
        \/ containers[i].containerName = Null
        \/ /\ IsString(containers[i].containerName)
           /\ WellFormedName(containers[i].containerName.s)
    /\ ParseSucceeded =>
        \A i \in 1..Len(output.containers) :
            output.containers[i].container.containerName
                = MappedName(output.containers[i].name,
                             DefinitionOf(output.containers[i].name))
    /\ lastCall.op = "setContainerName" =>
        IF lastCall.arg.s = <<"m", "y", "_", "a", "p", "p", "-", "1">>
        THEN /\ lastCall.err = NoError
             /\ containers[lastCall.target].containerName = lastCall.arg
        ELSE lastCall.err # NoError

\* a Container mapped from the service `web` has been renamed my_app-1, and
\* then `-bad` has been rejected, leaving the name
C20_Witness ==
    /\ ParseSucceeded
    /\ output.containers[1].container.containerName = S(web)
    /\ lastCall.op = "setContainerName"
    /\ lastCall.arg = S(<<"-", "b", "a", "d">>)
    /\ lastCall.err # NoError
    /\ containers[1].containerName = S(<<"m", "y", "_", "a", "p", "p", "-", "1">>)

(***************************************************************************)
(* The field mappings of the Compose parser (SpecParse)                    *)
(***************************************************************************)
\* the entries of a list the predicate holds for, each in the given form
FormsOf(entries, Holds(_), Form(_)) ==
    [i \in 1..Len(SelectSeq(entries, Holds)) |-> Form(SelectSeq(entries, Holds)[i])]

IsTmpfsEntry(v) == v.long /\ v.type = tmpfsType
IsVolumeEntry(v) == ~IsTmpfsEntry(v)

\* target[:size=<size>]
TmpfsForm(v) ==
    ToStr(v.target)
        \o (IF v.tmpfsSize # Undef
            THEN <<":", "s", "i", "z", "e", "=">> \o ToStr(v.tmpfsSize) ELSE <<>>)

\* source:target[:ro], without `source:` for an entry that names no source;
\* a short entry is the string itself
VolumeForm(v) ==
    IF ~v.long THEN v.v.s
    ELSE (IF v.source # Undef THEN ToStr(v.source) \o <<":">> ELSE <<>>)
             \o ToStr(v.target)
             \o (IF v.read_only THEN <<":", "r", "o">> ELSE <<>>)

\* C21: every long-form entry of `volumes` goes to exactly one destination.
\* For every service parse returned a Container for, the tmpfs list holds,
\* in order, `target[:size=<size>]` for exactly the entries of type tmpfs
\* (followed by the values of the `tmpfs` key), and the volume list holds, in
\* order, `source:target[:ro]` for exactly the other entries: no tmpfs entry
\* is in the volume list and no other entry is in the tmpfs list.
C21_LongVolumeOneDestination ==
    ParseSucceeded =>
        \A i \in 1..Len(output.containers) :
            /\ output.containers[i].container.tmpfs =
                   FormsOf(DefinitionOf(output.containers[i].name).volumes,
                           IsTmpfsEntry, TmpfsForm)
                       \o DefinitionOf(output.containers[i].name).tmpfs.items
            /\ output.containers[i].container.volume =
                   FormsOf(DefinitionOf(output.containers[i].name).volumes,
                           IsVolumeEntry, VolumeForm)

\* a tmpfs entry with a size and a read-only bind mount were mapped
C21_Witness ==
    /\ ParseSucceeded
    /\ input.compose.services[1].def.volumes =
           <<LongVolume(tmpfsType, Undef, S(pathX), FALSE, S(size64m)),
             LongVolume(bindType, S(pathA), S(pathB), TRUE, Undef)>>
    /\ output.containers[1].container.tmpfs =
           << <<"/", "x", ":", "s", "i", "z", "e", "=", "6", "4", "m">> >>
    /\ output.containers[1].container.volume =
           << <<"/", "a", ":", "/", "b", ":", "r", "o">> >>

\* the entries of the `networks` mapping of a service, in the order the
\* engine enumerates its keys
NetworkEntriesOf(serviceName) ==
    ObjectEntries(DefinitionOf(serviceName).networks.entries)

\* the bare name, or name:ip=<addr> for an entry with an ipv4_address
NetworkForm(e) ==
    IF e.ipv4_address # Undef
    THEN e.name \o <<":", "i", "p", "=">> \o ToStr(e.ipv4_address)
    ELSE e.name

\* the number of aliases of the first n entries
RECURSIVE AliasCount(_, _)
AliasCount(es, n) == IF n = 0 THEN 0 ELSE AliasCount(es, n - 1) + Len(es[n].aliases)

\* C22: for a `networks` mapping, each network contributes exactly one spec
\* to the network list, the bare name or name:ip=<addr>, and every entry of
\* its `aliases` is appended to networkAlias, in order; the aliases are in
\* no network spec.
C22_NetworkSpecsAndAliases ==
    ParseSucceeded =>
        \A i \in 1..Len(output.containers) :
            DefinitionOf(output.containers[i].name).networks.kind = "map" =>
                /\ output.containers[i].container.network =
                       [k \in 1..Len(NetworkEntriesOf(output.containers[i].name)) |->
                           NetworkForm(NetworkEntriesOf(output.containers[i].name)[k])]
                /\ Len(output.containers[i].container.networkAlias) =
                       AliasCount(NetworkEntriesOf(output.containers[i].name),
                                  Len(NetworkEntriesOf(output.containers[i].name)))
                /\ \A k \in 1..Len(NetworkEntriesOf(output.containers[i].name)) :
                       \A a \in 1..Len(NetworkEntriesOf(output.containers[i].name)[k].aliases) :
                           output.containers[i].container.networkAlias[
                               AliasCount(NetworkEntriesOf(output.containers[i].name),
                                          k - 1) + a] =
                               NetworkEntriesOf(output.containers[i].name)[k].aliases[a]

\* a network with an address and one with an address and an alias were mapped
C22_Witness ==
    /\ ParseSucceeded
    /\ input.compose.services[1].def.networks =
           NetworkMap(<<NetworkConfig(front, S(address), <<>>),
                        NetworkConfig(back, Undef, <<aliasApp, aliasWww>>)>>)
    /\ output.containers[1].container.network = <<front \o <<":", "i", "p", "=">> \o address, back>>
    /\ output.containers[1].container.networkAlias = <<aliasApp, aliasWww>>

\* published:target[/protocol], the suffix left out for tcp and for no
\* protocol, `published:` for no published port
NormalizedPort(p) ==
    (IF p.published # Undef THEN ToStr(p.published) \o <<":">> ELSE <<>>)
        \o ToStr(p.target)
        \o (IF p.protocol \notin {Undef, S(<<"t", "c", "p">>)}
            THEN <<"/">> \o ToStr(p.protocol) ELSE <<>>)

\* the entry as a short-form string
AsShortPort(p) == IF p.long THEN ShortPort(S(NormalizedPort(p))) ELSE p

\* the document with every long-form port written in the short form
WithShortPorts(compose) ==
    [compose EXCEPT !.services =
        [i \in 1..Len(compose.services) |->
            [compose.services[i] EXCEPT !.def.ports =
                [k \in 1..Len(compose.services[i].def.ports) |->
                    AsShortPort(compose.services[i].def.ports[k])]]]]

HasLongPort(compose) ==
    \E i \in 1..Len(compose.services) :
        \E k \in 1..Len(compose.services[i].def.ports) :
            compose.services[i].def.ports[k].long

\* C25: a long-form port {target, published, protocol} is mapped as the
\* short-form string published:target[/protocol], the suffix omitted when
\* the protocol is tcp or absent: parse gives for the document what it gives
\* for the document with these strings in the place of the long-form
\* entries, the same Error of addPublishPort or the same Containers, and the
\* port list of a Container returned holds exactly these strings.
C25_LongPortAsShortForm ==
    (ParseCalled /\ HasLongPort(input.compose)) =>
        /\ output.err = parse(WithShortPorts(input.compose)).err
        /\ output.containers = parse(WithShortPorts(input.compose)).containers
        /\ \A i \in 1..Len(output.containers) :
               output.containers[i].container.publishPort =
                   [k \in 1..Len(DefinitionOf(output.containers[i].name).ports) |->
                       ToStr(AsShortPort(
                           DefinitionOf(output.containers[i].name).ports[k]).v)]

\* 8080:80/udp was mapped from {target: 80, published: 8080, protocol: udp}
C25_Witness ==
    /\ ParseSucceeded
    /\ input.compose.services[1].def.ports =
           <<LongPort(N(80), N(8080), S(<<"u", "d", "p">>))>>
    /\ output.containers[1].container.publishPort =
           << <<"8", "0", "8", "0", ":", "8", "0", "/", "u", "d", "p">> >>

(***************************************************************************)
(* Conversion of one-service documents (SpecConvert)                       *)
(***************************************************************************)
unlessStopped ==
    <<"u", "n", "l", "e", "s", "s", "-", "s", "t", "o", "p", "p", "e", "d">>

\* values of `restart`: the four policies, and others
RestartPolicies == {<<"n", "o">>, always, onFailure, unlessStopped}
RestartValues ==
    {S(p) : p \in RestartPolicies}
    \cup {S(<<"n", "e", "v", "e", "r">>), S(<<"A", "l", "w", "a", "y", "s">>),
          N(1)}
    \cup {S(m) : m \in ObjectPrototypeMethods}

RestartDefs == {[Plain EXCEPT !.restart = r] : r \in RestartValues}

\* the per-service keys _validateService warns about
UnsupportedKeys ==
    {"external_links", "links", "network_mode", "secrets", "configs", "deploy"}

\* a service with ports, environment, a restart policy and dependencies
FullService ==
    [Plain EXCEPT
        !.ports = <<ShortPort(S(port8080to80))>>,
        !.environment = PairArray(<<S(<<"A", "=", "b">>)>>),
        !.restart = S(always),
        !.depends_on = DependsOnSeq(<<db>>)]

\* services with unsupported keys: one key, two, all of them; a service
\* that fails to convert with or without them
UnsupportedDefs ==
    {[d EXCEPT !.unsupported = u] :
        d \in {Plain, FullService, BadPort},
        u \in {{"deploy"}, {"links", "network_mode"}, UnsupportedKeys}}

\* services that set only image, ports and environment
nodeEnv == <<"N", "O", "D", "E", "_", "E", "N", "V">>
production == <<"p", "r", "o", "d", "u", "c", "t", "i", "o", "n">>
EndToEndPorts ==
    {<<>>, <<ShortPort(S(<<"8", "0", ":", "8", "0">>))>>,
     <<ShortPort(S(port8080to80)), ShortPort(S(port80 \o udp))>>,
     <<LongPort(N(80), N(8080), S(<<"u", "d", "p">>)), ShortPort(N(80))>>}
EndToEndEnvironments ==
    {NoPairs,
     PairMap(<<[name |-> nodeEnv, value |-> S(production)]>>),
     PairMap(<<[name |-> nodeEnv, value |-> S(production)],
               [name |-> <<"A">>, value |-> N(1)]>>),
     PairArray(<<S(<<"A", "=", "b", " ", "c">>), S(<<"B", "=", "1">>)>>)}
EndToEndDefs ==
    {[Plain EXCEPT !.ports = p, !.environment = e] :
        p \in EndToEndPorts, e \in EndToEndEnvironments}

\* the definitions converted, each as the one service of a document
ConvertDefs == RestartDefs \cup UnsupportedDefs \cup EndToEndDefs

\* a Service overlay of the caller with no restart policy
SecService ==
    [EmptyService EXCEPT !.keys = {"RestartSec"}, !.RestartSec = S(<<"1", "0">>)]

ConvertOptions ==
    {[name |-> Undef, unit |-> u, service |-> s, install |-> NoInstall,
      globals |-> NoGlobals] :
        u \in {NoUnit, CallerUnit},
        s \in {NoService, EmptyService, SecService, LowerService}}

InitConvert ==
    /\ containers = <<NewContainer>>
    /\ arrays = <<>>
    /\ lastCall = NoCall
    /\ snapshot = NoSnapshot
    /\ ops = 0
    /\ input \in {[kind |-> "compose",
                   compose |-> Document(<<[name |-> k, def |-> d]>>),
                   options |-> o] :
                     k \in {web, db}, d \in ConvertDefs, o \in ConvertOptions}
    /\ output = [kind |-> "conversions", compose |-> NotCalled, run |-> RunNotCalled]

NextConvert ==
    \/ ComposeToQuadlet
    \/ DockerRunToQuadlet

SpecConvert == InitConvert /\ [][NextConvert]_vars

\* the definition of the one service, and the unit text returned for it
TheService == input.compose.services[1]
TheContent == output.compose.results[1].content

\* the caller passed no restart policy
NoCallerRestart ==
    ~Truthy(input.options.service.restart) /\ ~Truthy(input.options.service.Restart)

\* C23: with no restart policy from the caller, composeToQuadlet writes
\* Restart=always for `restart: unless-stopped`, Restart=<value> for no,
\* always and on-failure, and for any other value of `restart` it writes no
\* Restart= line and raises no error.
C23_RestartMapped ==
    (output.compose.called /\ NoCallerRestart /\ TheService.def \in RestartDefs) =>
        /\ output.compose.err = NoError
        /\ ValuesOf(TheContent, "Restart=") =
               IF TheService.def.restart = S(unlessStopped) THEN <<always>>
               ELSE IF TheService.def.restart \in {S(p) : p \in RestartPolicies}
               THEN <<TheService.def.restart.s>>
               ELSE <<>>

\* the document without the unsupported per-service keys
Stripped(compose) ==
    [compose EXCEPT !.services =
        [i \in 1..Len(compose.services) |->
            [compose.services[i] EXCEPT !.def.unsupported = {}]]]

\* C24: the unsupported per-service keys (external_links, links,
\* network_mode, secrets, configs, deploy) cause no mapping failure and have
\* no effect on the output: the Containers parse returns and the unit texts
\* composeToQuadlet returns, or the Error either raises, are those of the
\* document without these keys.
C24_UnsupportedKeysIgnored ==
    (output.compose.called /\ TheService.def.unsupported # {}) =>
        /\ output.compose =
               Called(composeToQuadlet(Stripped(input.compose), input.options))
        /\ parse(input.compose) = parse(Stripped(input.compose))
        /\ (TheService.def.ports # BadPort.ports => output.compose.err = NoError)

\* a service with all six keys was converted
C24_Witness ==
    /\ output.compose.called
    /\ output.compose.err = NoError
    /\ TheService.def.unsupported = UnsupportedKeys
    /\ TheService.def.ports # <<>>
    /\ ValuesOf(TheContent, "PublishPort=") = <<port8080to80>>

\* the lines of the [Container] block of a text: those after its header, up
\* to the next blank line or the end of the text
ContainerHeader(text) == CHOOSE i \in 1..Len(text) : text[i] = <<"[Container]">>
BlockEnd(text, from) ==
    IF \E j \in (from + 1)..Len(text) : text[j] = <<>>
    THEN CHOOSE j \in (from + 1)..Len(text) :
             text[j] = <<>> /\ \A k \in (from + 1)..(j - 1) : text[k] # <<>>
    ELSE Len(text) + 1
ContainerLines(text) ==
    SubSeq(text, ContainerHeader(text) + 1,
           BlockEnd(text, ContainerHeader(text)) - 1)

\* the ports and the variables a definition declares, as strings
PortsOf(def) == [k \in 1..Len(def.ports) |-> ToStr(AsShortPort(def.ports[k]).v)]
VariablesOf(def) ==
    IF def.environment.kind = "array"
    THEN [k \in 1..Len(def.environment.items) |-> def.environment.items[k].s]
    ELSE [k \in 1..Len(def.environment.entries) |->
             def.environment.entries[k].name \o <<"=">>
                 \o ToStr(def.environment.entries[k].value)]

\* a value written as it is: letters, digits, `=` and `_` only
PlainValue(s) == \A k \in 1..Len(s) : s[k] \in Letters \cup Digits \cup {"=", "_"}

\* the caller passed no overlay
NoOverlays ==
    /\ ~input.options.unit.defined /\ ~input.options.service.defined
    /\ ~input.options.install.defined /\ ~input.options.globals.defined

\* C26: a service that sets only image, ports and environment gives a
\* [Container] block of exactly Image, ContainerName=<service key>, one
\* PublishPort line per port and one Environment line per variable, in this
\* order and with no other line; with no overlay of the caller the text has
\* no other section.
C26_EndToEndContainerBlock ==
    (HasConverted /\ TheService.def \in EndToEndDefs) =>
        /\ Len(ContainerLines(TheContent)) =
               2 + Len(PortsOf(TheService.def)) + Len(VariablesOf(TheService.def))
        /\ ContainerLines(TheContent)[1] = <<"Image=">> \o ToStr(TheService.def.image)
        /\ ContainerLines(TheContent)[2] = <<"ContainerName=">> \o TheService.name
        /\ \A k \in 1..Len(PortsOf(TheService.def)) :
               ContainerLines(TheContent)[2 + k] =
                   <<"PublishPort=">> \o PortsOf(TheService.def)[k]
        /\ \A k \in 1..Len(VariablesOf(TheService.def)) :
               /\ Head(ContainerLines(TheContent)[
                           2 + Len(PortsOf(TheService.def)) + k]) = "Environment="
               /\ PlainValue(VariablesOf(TheService.def)[k]) =>
                      Tail(ContainerLines(TheContent)[
                               2 + Len(PortsOf(TheService.def)) + k]) =
                          VariablesOf(TheService.def)[k]
        /\ NoOverlays =>
               TheContent = <<<<"[Container]">>>> \o ContainerLines(TheContent)

\* web: {image: nginx, ports: ["80:80"], environment: {NODE_ENV: production}}
\* was converted with no overlay
C26_Witness ==
    /\ HasConverted
    /\ NoOverlays
    /\ TheService.name = web
    /\ TheService.def =
           [Plain EXCEPT !.ports = <<ShortPort(S(<<"8", "0", ":", "8", "0">>))>>,
                         !.environment =
                             PairMap(<<[name |-> nodeEnv, value |-> S(production)]>>)]
    /\ TheContent =
           <<<<"[Container]">>, <<"Image=">> \o nginx, <<"ContainerName=">> \o web,
             <<"PublishPort=", "8", "0", ":", "8", "0">>,
             <<"Environment=">> \o nodeEnv \o <<"=">> \o production>>

(***************************************************************************)
(* The caller's options across the services of a document (SpecCompose)    *)
(***************************************************************************)
\* the entry of the services mapping a result was made for
EntryFor(filename) ==
    LET es == input.compose.services
    IN  es[CHOOSE i \in 1..Len(es) : ContainerFile(es[i].name) = filename]

\* the text composeToQuadlet returns for the service alone, with the options
Alone(entry, options) ==
    composeToQuadlet(Document(<<entry>>), options).results[1].content

\* the units and the policy the caller passed
CallerUnits(list) == IF input.options.unit.defined THEN list ELSE <<>>
CallerAfter == CallerUnits(input.options.unit.after)
CallerWants == CallerUnits(input.options.unit.wants)

ValidatingMutators ==
    {"setImage", "setContainerName", "addPublishPort", "addEnvironment",
     "addVolume", "addLabel"}

\* the Container c after the mutator op accepted the string s
Accepted(op, s, c) ==
    CASE op = "setImage"         -> [c EXCEPT !.image = S(Trim(s))]
      [] op = "setContainerName" -> [c EXCEPT !.containerName = S(Trim(s))]
      [] op = "addPublishPort"   -> [c EXCEPT !.publishPort = Append(@, Trim(s))]
      [] op = "addEnvironment"   -> [c EXCEPT !.environment = Append(@, Trim(s))]
      [] op = "addVolume"        -> [c EXCEPT !.volume = Append(@, Trim(s))]
      [] op = "addLabel"         -> [c EXCEPT !.label = Append(@, Trim(s))]

\* a step that is a call of a validating mutator: a rejected call changes no
\* Container, an accepted one changes its own field only
MutatorStep ==
    lastCall'.op \in ValidatingMutators =>
        IF lastCall'.err # NoError
        THEN containers' = containers
        ELSE containers' =
                 [containers EXCEPT ![lastCall'.target] =
                     Accepted(lastCall'.op, lastCall'.arg.s, @)]

\* C28: a call of setImage, setContainerName, addPublishPort,
\* addEnvironment, addVolume or addLabel that rejects its argument leaves
\* the Container exactly as it was, and a call that accepts it sets the
\* field to the trimmed value, or appends the trimmed value to its list, and
\* changes nothing else: after any sequence of calls each list holds exactly
\* the accepted values, trimmed, in call order.
C28_RejectedCallChangesNothing == [][MutatorStep]_vars

\* a label was rejected after two were accepted, one of them trimmed
C28_Witness ==
    /\ lastCall.op = "addLabel"
    /\ lastCall.err # NoError
    /\ containers[1].label = <<<<"c", "=", "d">>, <<"a", "=", "b">>>>

(***************************************************************************)
(* validate() after the checks of the mutators (SpecValidate)              *)
(***************************************************************************)
\* a port string for addPublishPort on a new Container, or a document with
\* long-form and short-form ports for parse
InitValidate ==
    /\ containers = <<NewContainer>>
    /\ arrays = <<>>
    /\ lastCall = NoCall
    /\ snapshot = NoSnapshot
    /\ ops = 0
    /\ input \in {[kind |-> "port", port |-> p] :
                     p \in {q \in PortCases : q.hasHost \/ q.host = 0}}
                 \cup {[kind |-> "document",
                        compose |-> Document(<<[name |-> web, def |-> d]>>)] :
                          d \in PortDefs}
    /\ output = NoOutput

\* container.validate() on the current Container
Validate ==
    /\ output.kind = "none"
    /\ output' = [kind |-> "validated", container |-> containers[Current],
                  err |-> validate(containers[Current])]
    /\ UNCHANGED <<containers, arrays, lastCall, snapshot, ops, input>>

NextValidate ==
    \/ PortCall
    \/ Parse
    \/ SetImage
    \/ Validate

SpecValidate == InitValidate /\ [][NextValidate]_vars

\* C29: validate() never rejects what the checks of the mutators accepted:
\* for every Container whose image was set by setImage and whose ports were
\* all added by addPublishPort, with or without a /tcp, /udp or /sctp
\* suffix, validate() returns without an Error; so it does for every
\* Container the Compose parser returns.
C29_ValidateAcceptsCheckedPorts ==
    (output.kind = "validated" /\ output.container.image # NewContainer.image) =>
        output.err = NoError

\* validate() returned for a Container with the port 65535:1/udp
C29_Witness ==
    /\ output.kind = "validated"
    /\ output.err = NoError
    /\ output.container.image = S(nginx)
    /\ <<"6", "5", "5", "3", "5", ":", "1", "/", "u", "d", "p">>
           \in Range(output.container.publishPort)

(***************************************************************************)
(* ContainerUtils.validateContainer on volumes addVolume accepted          *)
(* (SpecVolumes)                                                           *)
(***************************************************************************)
\* the message pushed for the volume at position i (index i - 1) that
\* Volume.parse throws on, none for a volume it returns for
VolumeError(volume, i) ==
    IF VolumeParse(volume).err # NoError
    THEN <<<<"Invalid volume mapping at index ">> \o IntToStr(i - 1)
               \o <<": ">> \o volume>>
    ELSE <<>>

\* ContainerUtils.validateContainer(container): the list of messages.
\* PortMapping.parse throws on no string, so a port adds no message.
validateContainer(c) ==
    (IF ~Truthy(c.image) THEN <<<<"Image is required">>>> ELSE <<>>)
        \o Flatten([i \in 1..Len(c.volume) |-> VolumeError(c.volume[i], i)])

\* a new Container for addVolume, or a one-service document with volumes for
\* parse
InitVolumes ==
    /\ containers = <<NewContainer>>
    /\ arrays = <<>>
    /\ lastCall = NoCall
    /\ snapshot = NoSnapshot
    /\ ops = 0
    /\ input \in {Idle}
                 \cup {[kind |-> "document",
                        compose |-> Document(<<[name |-> web, def |-> d]>>)] :
                          d \in VolumeDefs
                                \cup {[Plain EXCEPT !.volumes = <<ShortVolume(v)>>] :
                                         v \in VolumeArgs}}
    /\ output = NoOutput

\* errors = ContainerUtils.validateContainer(container)
ValidateContainer ==
    /\ output.kind # "checked"
    /\ output' = [kind |-> "checked", container |-> containers[Current],
                  errors |-> validateContainer(containers[Current])]
    /\ UNCHANGED <<containers, arrays, lastCall, snapshot, ops, input>>

NextVolumes ==
    \/ AddVolume
    \/ Parse
    \/ ValidateContainer

SpecVolumes == InitVolumes /\ [][NextVolumes]_vars

IsVolumeError(message) == Head(message) = "Invalid volume mapping at index "

\* C30: the two volume checks agree: every volume string addVolume accepted,
\* called directly or by the Compose parser, a bare absolute path included,
\* is parsed by Volume.parse without an Error, so validateContainer reports
\* no volume error for the Container.
C30_VolumeChecksAgree ==
    output.kind = "checked" =>
        \A k \in 1..Len(output.errors) : ~IsVolumeError(output.errors[k])

==========================================================================
